---- MODULE Spec2Model ----
(***************************************************************************)
(* A model of the job-scraping pipelines of the Alumni-Portal repository:  *)
(*   src/scrape_actuarial_jobs.py   (SOA / CAS / Indeed HTML boards)       *)
(*   src/scrape_company_boards.py   (Greenhouse / Lever / Workday APIs)    *)
(*   src/scripts/python/job_scraper.py (ActuarialJobScraper, India)        *)
(*   src/api/scraper_api.py         (the HTTP API that runs the scraper)   *)
(*                                                                         *)
(* Text is a sequence of one-character strings.  Python's None is the      *)
(* one-element sequence NoneT, so that every text-valued field has one     *)
(* type.  An optional record (a salary) is <<>> for None and <<r>> for r.  *)
(***************************************************************************)
EXTENDS Integers, Sequences, FiniteSets, TLC

VARIABLES
    op,        \* name of the operation that ran last ("init" before any)
    input,     \* the arguments of that call and the content it fetched
    output,    \* the value it returned
    raised,    \* TRUE when it ended by raising to its caller
    log,       \* the per-source summary the orchestrator printed
    scraper,   \* <<>>, or <<self>> for the ActuarialJobScraper the process holds
    seen_ids,  \* ActuarialJobScraper.seen_ids of the scraper instance
    jobs,      \* ActuarialJobScraper.jobs of the scraper instance
    today,     \* the date datetime.now() returns, as a day number
    runs,      \* the scrape_all runs made on the scraper instance so far
    scraping_status,   \* scraper_api.scraping_status
    latest_jobs_cache, \* scraper_api.latest_jobs_cache
    threads,   \* the threads trigger_scrape started, each with its locals
    response,  \* what the last HTTP request was answered
    files      \* what the API's scrapes wrote: [json, dir]

\* the state of the API server
api == <<scraping_status, latest_jobs_cache, threads, response, files>>

vars == <<op, input, output, raised, log, scraper, seen_ids, jobs, today, runs, api>>

-----------------------------------------------------------------------------
(* Characters and text                                                     *)

NoneT == <<"None">>

\* The rupee sign U+20B9, written in ASCII.
Rupee == "<INR>"

UpperSeq == <<"A","B","C","D","E","F","G","H","I","J","K","L","M",
              "N","O","P","Q","R","S","T","U","V","W","X","Y","Z">>
LowerSeq == <<"a","b","c","d","e","f","g","h","i","j","k","l","m",
              "n","o","p","q","r","s","t","u","v","w","x","y","z">>
DigitSeq == <<"0","1","2","3","4","5","6","7","8","9">>

Range(s) == {s[i] : i \in DOMAIN s}

UpperSet == Range(UpperSeq)
LowerSet == Range(LowerSeq)
DigitSet == Range(DigitSeq)

\* The characters the model's texts are written in, in code-point order.
CodeOrder ==
    <<"\t", "\n", " ", "!", "$", "&", "(", ")", "+", ",", "-", ".", "/">>
    \o DigitSeq \o <<":">> \o UpperSeq \o <<"_">> \o LowerSeq
    \o <<"|", Rupee>>

Ord(c) == CHOOSE i \in DOMAIN CodeOrder : CodeOrder[i] = c

\* \s of the re module
IsSpace(c) == c \in {" ", "\t", "\n"}

\* [a-zA-Z0-9]
IsAlnum(c) == c \in UpperSet \cup LowerSet \cup DigitSet

\* \w of the re module on str
IsWord(c) == IsAlnum(c) \/ c = "_"

\* str.lower() of one character
LowerCh(c) ==
    IF c \in UpperSet
    THEN LowerSeq[CHOOSE i \in DOMAIN UpperSeq : UpperSeq[i] = c]
    ELSE c

\* str.lower()
Lower(t) == [i \in DOMAIN t |-> LowerCh(t[i])]

\* re.sub(r"\s+", " ", t): every run of whitespace becomes one space
RECURSIVE CollapseWs(_)
CollapseWs(t) ==
    IF t = <<>> THEN <<>>
    ELSE IF IsSpace(Head(t))
         THEN IF Len(t) > 1 /\ IsSpace(t[2])
              THEN CollapseWs(Tail(t))
              ELSE <<" ">> \o CollapseWs(Tail(t))
         ELSE <<Head(t)>> \o CollapseWs(Tail(t))

\* str.strip(): leading and trailing whitespace removed
RECURSIVE LStrip(_)
LStrip(t) == IF t # <<>> /\ IsSpace(Head(t)) THEN LStrip(Tail(t)) ELSE t

RECURSIVE RStrip(_)
RStrip(t) ==
    IF t # <<>> /\ IsSpace(t[Len(t)]) THEN RStrip(SubSeq(t, 1, Len(t) - 1)) ELSE t

Strip(t) == RStrip(LStrip(t))

\* `x or ""`
OrEmpty(t) == IF t = NoneT THEN <<>> ELSE t

\* scrape_actuarial_jobs.normalize_whitespace
normalize_whitespace(t) == Strip(CollapseWs(OrEmpty(t)))

\* scrape_company_boards.normalize
normalize(t) == Strip(CollapseWs(OrEmpty(t)))

\* the characters clean_text keeps: [\w\s\-.,/$()&] and the rupee sign
CleanKeeps(c) ==
    IsWord(c) \/ IsSpace(c) \/ c \in {"-", ".", ",", "/", "$", "(", ")", "&", Rupee}

\* re.sub(r'[^\w\s\-.,/$()&<INR>]', '', t): the other characters are removed
RECURSIVE RemoveSpecial(_)
RemoveSpecial(t) ==
    IF t = <<>> THEN <<>>
    ELSE (IF CleanKeeps(Head(t)) THEN <<Head(t)>> ELSE <<>>)
         \o RemoveSpecial(Tail(t))

\* ActuarialJobScraper.clean_text
clean_text(t) ==
    IF t = NoneT \/ t = <<>> THEN <<>>
    ELSE RemoveSpecial(Strip(CollapseWs(t)))

\* `needle in hay` for str
Contains(hay, needle) ==
    \E i \in 0..(Len(hay) - Len(needle)) :
        SubSeq(hay, i + 1, i + Len(needle)) = needle

\* s < t for str: lexicographic by code point
RECURSIVE StrLess(_, _)
StrLess(s, t) ==
    IF t = <<>> THEN FALSE
    ELSE IF s = <<>> THEN TRUE
    ELSE IF Head(s) = Head(t) THEN StrLess(Tail(s), Tail(t))
    ELSE Ord(Head(s)) < Ord(Head(t))

\* sep.join(parts)
RECURSIVE Join(_, _)
Join(parts, sep) ==
    IF parts = <<>> THEN <<>>
    ELSE IF Len(parts) = 1 THEN parts[1]
    ELSE parts[1] \o sep \o Join(Tail(parts), sep)

\* all sequences over S of length at most n
SeqsUpTo(S, n) == UNION {[1..k -> S] : k \in 0..n}

-----------------------------------------------------------------------------
(* The Job record of scrape_actuarial_jobs.py and scrape_company_boards.py *)
(* (one dataclass, declared in both files).  Of its fields the model       *)
(* carries the ones the pipeline reads or the parsers compute here; the    *)
(* fields both files leave None (job_type, posted_date) are carried too.   *)

\* the length gen_id truncates an id to
IdLen == 64

Bar == <<"|">>

\* s[:n]
Prefix(s, n) == SubSeq(s, 1, IF Len(s) < n THEN Len(s) ELSE n)

\* re.sub(r"[^a-zA-Z0-9]", "", seed)
RECURSIVE StripNonAlnum(_)
StripNonAlnum(t) ==
    IF t = <<>> THEN <<>>
    ELSE (IF IsAlnum(Head(t)) THEN <<Head(t)>> ELSE <<>>)
         \o StripNonAlnum(Tail(t))

\* scrape_actuarial_jobs.gen_id and scrape_company_boards.gen_id (same code)
gen_id(title, company, location, url) ==
    Prefix(StripNonAlnum(title \o Bar \o company \o Bar \o location \o Bar \o url),
           IdLen)

\* Job(...): the dataclass constructor
Job(id, title, company, location, description, salary, experience_level, url, apply_url, source, featured) ==
    [id |-> id, title |-> title, company |-> company, location |-> location,
     description |-> description, salary |-> salary, job_type |-> NoneT,
     experience_level |-> experience_level,
     posted_date |-> NoneT, url |-> url, apply_url |-> apply_url,
     source |-> source, featured |-> featured]

-----------------------------------------------------------------------------
(* Salary parsing of scrape_actuarial_jobs.py                              *)

\* [\d,]
IsNumCh(c) == c \in DigitSet \cup {","}

\* the index after the run of [\d,] characters that starts at i
RECURSIVE NumRunEnd(_, _)
NumRunEnd(t, i) ==
    IF i <= Len(t) /\ IsNumCh(t[i]) THEN NumRunEnd(t, i + 1) ELSE i

\* \s*: the index of the first character at or after i that is no whitespace
RECURSIVE SkipWs(_, _)
SkipWs(t, i) ==
    IF i <= Len(t) /\ IsSpace(t[i]) THEN SkipWs(t, i + 1) ELSE i

\* whether the (lower-case) word w stands at index i of t, ignoring case
WordAt(t, i, w) ==
    /\ i + Len(w) - 1 <= Len(t)
    /\ Lower(SubSeq(t, i, i + Len(w) - 1)) = w

\* str.replace(c, ''): t without its characters c
RECURSIVE RemoveCh(_, _)
RemoveCh(t, c) ==
    IF t = <<>> THEN <<>>
    ELSE (IF Head(t) = c THEN <<>> ELSE <<Head(t)>>) \o RemoveCh(Tail(t), c)

DigitVal(c) == (CHOOSE i \in DOMAIN DigitSeq : DigitSeq[i] = c) - 1

\* int(digits) for a non-empty string of digits
RECURSIVE ParseInt(_)
ParseInt(d) ==
    IF Len(d) = 1 THEN DigitVal(d[1])
    ELSE 10 * ParseInt(SubSeq(d, 1, Len(d) - 1)) + DigitVal(d[Len(d)])

\* (?:-|to)\s*(\$|USD\s*)?([\d,]+) tried at index p, after the first number
\* and \s*: the index where the second number starts, or 0 for no match
UsdSecondStart(t, p) ==
    LET q == IF p <= Len(t) /\ t[p] = "-" THEN p + 1
             ELSE IF WordAt(t, p, <<"t", "o">>) THEN p + 2
             ELSE 0
        r == SkipWs(t, q)
        n == IF q = 0 THEN 0
             ELSE IF r <= Len(t) /\ t[r] = "$" THEN r + 1
             ELSE IF WordAt(t, r, <<"u", "s", "d">>) THEN SkipWs(t, r + 3)
             ELSE r
    IN  IF n # 0 /\ n <= Len(t) /\ IsNumCh(t[n]) THEN n ELSE 0

\* re.search of
\*   (\$|USD\s*)?([\d,]+)\s*(?:-|to)\s*(\$|USD\s*)?([\d,]+)   with re.I:
\* the leftmost match takes as group 2 the first whole run of [\d,] that the
\* rest of the pattern follows, and as group 4 the whole run after it.
\* The starts of such runs:
UsdMatchStarts(t) ==
    {i \in DOMAIN t :
        /\ IsNumCh(t[i])
        /\ (i = 1 \/ ~IsNumCh(t[i - 1]))
        /\ UsdSecondStart(t, SkipWs(t, NumRunEnd(t, i))) # 0}

Min(S) == CHOOSE x \in S : \A y \in S : x <= y

\* scrape_actuarial_jobs.parse_salary: <<>> is None
parse_salary(text) ==
    IF text = NoneT \/ text = <<>> \/ UsdMatchStarts(text) = {} THEN <<>>
    ELSE LET i  == Min(UsdMatchStarts(text))
             e  == NumRunEnd(text, i)
             n  == UsdSecondStart(text, SkipWs(text, e))
             g2 == RemoveCh(SubSeq(text, i, e - 1), ",")
             g4 == RemoveCh(SubSeq(text, n, NumRunEnd(text, n) - 1), ",")
         IN  \* int('') raises ValueError, which is caught: return None
             IF g2 = <<>> \/ g4 = <<>> THEN <<>>
             ELSE <<[min |-> ParseInt(g2), max |-> ParseInt(g4),
                     currency |-> "USD"]>>

-----------------------------------------------------------------------------
(* Salary parsing of job_scraper.py (rupees)                               *)

\* [<INR>Rs\.] under re.IGNORECASE
IsCurCh(c) == c \in {Rupee, "R", "r", "S", "s", "."}

IsDigit(c) == c \in DigitSet

\* the index after the run of [<INR>Rs\.] characters that starts at i
RECURSIVE CurRunEnd(_, _)
CurRunEnd(t, i) ==
    IF i <= Len(t) /\ IsCurCh(t[i]) THEN CurRunEnd(t, i + 1) ELSE i

\* the index after the run of digits that starts at i
RECURSIVE DigitRunEnd(_, _)
DigitRunEnd(t, i) ==
    IF i <= Len(t) /\ IsDigit(t[i]) THEN DigitRunEnd(t, i + 1) ELSE i

DigitAt(t, i) == i >= 1 /\ i <= Len(t) /\ IsDigit(t[i])

\* \d+(?:\.\d+)? at the digit t[i]: the index after the number
DecEnd(t, i) ==
    LET e == DigitRunEnd(t, i)
    IN  IF e <= Len(t) /\ t[e] = "." /\ DigitAt(t, e + 1)
        THEN DigitRunEnd(t, e + 1)
        ELSE e

RECURSIVE Pow10(_)
Pow10(k) == IF k = 0 THEN 1 ELSE 10 * Pow10(k - 1)

\* float(d) of a matched number d, as the fraction num / den
DecVal(d) ==
    LET e == DigitRunEnd(d, 1)
    IN  IF e > Len(d) THEN [num |-> ParseInt(d), den |-> 1]
        ELSE [num |-> ParseInt(RemoveCh(d, ".")), den |-> Pow10(Len(d) - e)]

\* int(x * mult) for the float x = v.num / v.den (x >= 0, so int is floor).
\* Exact where the float product is: whole numbers, and fractions such as .5
Scaled(v, mult) == (v.num * mult) \div v.den

\* the words (?:L|Lakh|Lakhs|LPA|K) may match
Unit1Words ==
    {<<"l">>, <<"l","a","k","h">>, <<"l","a","k","h","s">>, <<"l","p","a">>, <<"k">>}

\* (?:L|Lakh|Lakhs|LPA|K)?\s*- tried at index p: the index of the "-", or 0.
\* At most one choice of the optional word is followed by \s*-.
Unit1Dash(t, p) ==
    LET ends == {p} \cup {p + Len(w) : w \in {x \in Unit1Words : WordAt(t, p, x)}}
        ok   == {SkipWs(t, u) : u \in ends} \cap {d \in DOMAIN t : t[d] = "-"}
    IN  IF ok = {} THEN 0 ELSE Min(ok)

\* \s*[<INR>Rs\.]*\s* after the "-" at index d: where the second number must start
AfterDash(t, d) == SkipWs(t, CurRunEnd(t, SkipWs(t, d + 1)))

\* pattern1 from the run of [<INR>Rs\.] that starts at i
Pattern1At(t, i) ==
    LET a == SkipWs(t, CurRunEnd(t, i))
        d == IF DigitAt(t, a) THEN Unit1Dash(t, SkipWs(t, DecEnd(t, a))) ELSE 0
        b == IF d = 0 THEN 0 ELSE AfterDash(t, d)
    IN  [ok |-> d # 0 /\ DigitAt(t, b), a |-> a, b |-> b]

\* where a run of characters satisfying the class starts
CurRunStarts(t) ==
    {i \in DOMAIN t : IsCurCh(t[i]) /\ (i = 1 \/ ~IsCurCh(t[i - 1]))}

DigitRunStarts(t) ==
    {i \in DOMAIN t : IsDigit(t[i]) /\ (i = 1 \/ ~IsDigit(t[i - 1]))}

Pattern1Starts(t) == {i \in CurRunStarts(t) : Pattern1At(t, i).ok}

\* (L|Lakh|Lakhs|LPA|K)? at index u, the last item of pattern1: the first
\* alternative that matches is kept, so every lakh word gives "L"
Unit2(t, u) ==
    IF WordAt(t, u, <<"l">>) THEN "L"
    ELSE IF WordAt(t, u, <<"k">>) THEN "K"
    ELSE ""

\* pattern2 from the digit at i:
\*   (\d+(?:\.\d+)?)\s*-\s*(\d+(?:\.\d+)?)\s*(Lakhs?|LPA|Crores?)
Pattern2At(t, i) ==
    LET p == SkipWs(t, DecEnd(t, i))
        b == IF p <= Len(t) /\ t[p] = "-" THEN SkipWs(t, p + 1) ELSE 0
        u == IF DigitAt(t, b) THEN SkipWs(t, DecEnd(t, b)) ELSE 0
        unit == IF u = 0 THEN ""
                ELSE IF WordAt(t, u, <<"c","r","o","r","e">>) THEN "crore"
                ELSE IF WordAt(t, u, <<"l","a","k","h">>)
                        \/ WordAt(t, u, <<"l","p","a">>) THEN "lakh"
                ELSE ""
    IN  [ok |-> unit # "", b |-> b, unit |-> unit]

Pattern2Starts(t) == {i \in DigitRunStarts(t) : Pattern2At(t, i).ok}

\* pattern3 from the run of [<INR>Rs\.] that starts at i:
\*   [<INR>Rs\.]+\s*(\d+(?:\.\d+)?)\s*(L|Lakh|Lakhs|LPA|Crore|Crores)
Pattern3At(t, i) ==
    LET a == SkipWs(t, CurRunEnd(t, i))
        u == IF DigitAt(t, a) THEN SkipWs(t, DecEnd(t, a)) ELSE 0
        unit == IF u = 0 THEN ""
                ELSE IF WordAt(t, u, <<"l">>) THEN "l"
                ELSE IF WordAt(t, u, <<"c","r","o","r","e">>) THEN "crore"
                ELSE ""
    IN  [ok |-> unit # "", a |-> a, unit |-> unit]

Pattern3Starts(t) == {i \in CurRunStarts(t) : Pattern3At(t, i).ok}

NumAt(t, i) == DecVal(SubSeq(t, i, DecEnd(t, i) - 1))

INR(mn, mx) == <<[min |-> mn, max |-> mx, currency |-> "INR"]>>

\* the first branch of extract_salary: pattern1 matched at the run starting at i
Salary1(t, i) ==
    LET m    == Pattern1At(t, i)
        unit == Unit2(t, SkipWs(t, DecEnd(t, m.b)))
        mult == IF unit = "L" THEN 100000 ELSE IF unit = "K" THEN 1000 ELSE 1
        mn   == Scaled(NumAt(t, m.a), mult)
        mx   == Scaled(NumAt(t, m.b), mult)
    IN  \* assume monthly if less than 50000
        IF mx < 50000 THEN INR(mn * 12, mx * 12) ELSE INR(mn, mx)

\* the second branch: pattern2 matched at the digit i
Salary2(t, i) ==
    LET m    == Pattern2At(t, i)
        mult == IF m.unit = "crore" THEN 10000000 ELSE 100000
    IN  INR(Scaled(NumAt(t, i), mult), Scaled(NumAt(t, m.b), mult))

\* int(sal * 0.8) .. int(sal * 1.2), written so that no product leaves
\* 32 bits
Around(sal) ==
    INR((sal \div 10) * 8 + ((sal % 10) * 8) \div 10,
        (sal \div 10) * 12 + ((sal % 10) * 12) \div 10)

\* the third branch: a single value, made a range of -20% .. +20%
Salary3(t, i) ==
    LET m    == Pattern3At(t, i)
        mult == IF m.unit = "crore" THEN 10000000 ELSE 100000
    IN  Around(Scaled(NumAt(t, m.a), mult))

\* ActuarialJobScraper.extract_salary: <<>> is None
extract_salary(text) ==
    LET t == RemoveCh(text, ",")
    IN  IF Pattern1Starts(t) # {} THEN Salary1(t, Min(Pattern1Starts(t)))
        ELSE IF Pattern2Starts(t) # {} THEN Salary2(t, Min(Pattern2Starts(t)))
        ELSE IF Pattern3Starts(t) # {} THEN Salary3(t, Min(Pattern3Starts(t)))
        ELSE <<>>

-----------------------------------------------------------------------------
(* What a request returns.  A page is [status, cards].  status is "ok"     *)
(* for a 2xx response with a well-formed body, "404", "500" for these      *)
(* statuses, "neterr" for a connection failure or a timeout, and "badbody" *)
(* for a 2xx response whose body is not what the adapter parses (not JSON, *)
(* or markup without listings).  cards are the listing elements (HTML) or  *)
(* items (JSON) of the body, in document order.  A card gives, per         *)
(* selector or key the adapters read, the text found or NoneT when the     *)
(* element or key is missing; text is the get_text() of the whole card     *)
(* (HTML) or its content / description (JSON); experience and salary are   *)
(* the two further elements the cards of Naukri and Indeed India have.     *)

Page(status, cards) == [status |-> status, cards |-> cards]

Card(title, company, location, href, apply, snippet, text) ==
    [title |-> title, company |-> company, location |-> location,
     href |-> href, apply |-> apply, snippet |-> snippet, text |-> text,
     experience |-> NoneT, salary |-> NoneT]

\* the outcome of a call: the list returned, or the exception raised
Return(js) == [raised |-> FALSE, error |-> "", jobs |-> js]

Raise(error) == [raised |-> TRUE, error |-> error, jobs |-> <<>>]

\* fetch: requests.get + raise_for_status, retried 3 times, then raising.
\* The page is what the last attempt met.
fetch_raises(page) == page.status \in {"404", "500", "neterr"}

\* text_of(el, selector): the normalized text of the element, "" without one
text_of(raw) == IF raw = NoneT THEN <<>> ELSE normalize_whitespace(raw)

\* the index of the n-th "/" of t, or 0
RECURSIVE NthSlash(_, _, _)
NthSlash(t, n, from) ==
    IF from > Len(t) THEN 0
    ELSE IF t[from] = "/"
         THEN IF n = 1 THEN from ELSE NthSlash(t, n - 1, from + 1)
         ELSE NthSlash(t, n, from + 1)

LastSlash(t) == IF \E i \in DOMAIN t : t[i] = "/"
                THEN CHOOSE i \in DOMAIN t :
                        t[i] = "/" /\ \A k \in DOMAIN t : t[k] = "/" => k <= i
                ELSE 0

HasScheme(href) == Len(href) >= 4 /\ SubSeq(href, 1, 4) = <<"h","t","t","p">>

\* urllib.parse.urljoin(base, href) for the hrefs of the model: an absolute
\* URL, a path from the root, or a name relative to the directory of base
urljoin(base, href) ==
    IF HasScheme(href) THEN href
    ELSE IF Head(href) = "/"
         THEN (IF NthSlash(base, 3, 1) = 0 THEN base
               ELSE SubSeq(base, 1, NthSlash(base, 3, 1) - 1)) \o href
    ELSE SubSeq(base, 1, LastSlash(base)) \o href

\* scrape_actuarial_jobs.safe_urljoin
safe_urljoin(base, href) ==
    IF href = NoneT \/ href = <<>> THEN base ELSE urljoin(base, href)

SoaBase == <<"h","t","t","p","s",":","/","/","j","o","b","s",".","s","o","a",".","o","r","g","/","j","o","b","s","/">>
CasBase == <<"h","t","t","p","s",":","/","/","w","w","w",".","c","a","s","a","c","t",".","o","r","g","/","c","a","r","e","e","r","-","c","e","n","t","e","r","/","j","o","b","-","b","o","a","r","d">>
IndeedBase == <<"h","t","t","p","s",":","/","/","w","w","w",".","i","n","d","e","e","d",".","c","o","m">>

RemoteWord == <<"r","e","m","o","t","e">>

\* any(k.lower() in text for k in keywords)
AnyIn(needles, hay) == \E i \in DOMAIN needles : Contains(hay, Lower(needles[i]))

\* scrape_actuarial_jobs.matches_filters
matches_filters(job, keywords, locations, remote_only) ==
    LET text == Lower(job.title \o <<" ">> \o job.company \o <<" ">> \o job.description)
    IN  /\ keywords # <<>> => AnyIn(keywords, text)
        /\ locations # <<>> => AnyIn(locations, Lower(OrEmpty(job.location)))
        /\ remote_only => Contains(Lower(OrEmpty(job.location)), RemoteWord)

\* scrape_company_boards.matches_filters (the same code)
boards_matches_filters(job, keywords, locations, remote_only) ==
    LET text == Lower(job.title \o <<" ">> \o job.company \o <<" ">> \o job.description)
    IN  /\ keywords # <<>> => AnyIn(keywords, text)
        /\ locations # <<>> => AnyIn(locations, Lower(OrEmpty(job.location)))
        /\ remote_only => Contains(Lower(OrEmpty(job.location)), RemoteWord)

-----------------------------------------------------------------------------
(* Aggregation: dedupe and sort_jobs                                       *)

\* the loop of dedupe: js is what is left of the input
RECURSIVE DedupeLoop(_, _, _)
DedupeLoop(js, seen, unique) ==
    IF js = <<>> THEN unique
    ELSE LET j == Head(js) IN
         IF j.id \in seen
         THEN DedupeLoop(Tail(js), seen, unique)
         ELSE DedupeLoop(Tail(js), seen \cup {j.id}, Append(unique, j))

\* a dedupe that lets a later posting replace the one kept for its id
RECURSIVE DedupeLastLoop(_, _)
DedupeLastLoop(js, unique) ==
    IF js = <<>> THEN unique
    ELSE LET j == Head(js) IN
         IF \E i \in DOMAIN unique : unique[i].id = j.id
         THEN DedupeLastLoop(Tail(js),
                  [i \in DOMAIN unique |->
                      IF unique[i].id = j.id THEN j ELSE unique[i]])
         ELSE DedupeLastLoop(Tail(js), Append(unique, j))

dedupe_keeps_last(js) == DedupeLastLoop(js, <<>>)

\* scrape_actuarial_jobs.dedupe
dedupe(js) == DedupeLoop(js, {}, <<>>)

\* scrape_company_boards.dedupe
boards_dedupe(js) == DedupeLoop(js, {}, <<>>)

\* the sort key (j.source, j.company, j.title)
SortKey(j) == <<j.source, j.company, j.title>>

\* a < b for tuples of str of one length: the first differing component decides
RECURSIVE KeyLess(_, _)
KeyLess(a, b) ==
    IF a = <<>> THEN FALSE
    ELSE IF Head(a) = Head(b) THEN KeyLess(Tail(a), Tail(b))
    ELSE StrLess(Head(a), Head(b))

\* sorted(js, key=...): stable, so j goes after every posting whose key is
\* not greater
RECURSIVE InsertSorted(_, _)
InsertSorted(sorted, j) ==
    IF sorted = <<>> THEN <<j>>
    ELSE IF KeyLess(SortKey(j), SortKey(Head(sorted)))
         THEN <<j>> \o sorted
         ELSE <<Head(sorted)>> \o InsertSorted(Tail(sorted), j)

RECURSIVE SortLoop(_, _)
SortLoop(js, sorted) ==
    IF js = <<>> THEN sorted
    ELSE SortLoop(Tail(js), InsertSorted(sorted, Head(js)))

\* scrape_actuarial_jobs.sort_jobs
sort_jobs(js) == SortLoop(js, <<>>)

\* scrape_company_boards.sort_jobs
boards_sort_jobs(js) == SortLoop(js, <<>>)
-----------------------------------------------------------------------------
(* The adapters of scrape_actuarial_jobs.py                                *)

\* the values of experience_level, a text or None
Level(name) == <<name>>

YearsWord == <<"y","e","a","r","s">>

\* re.search(r"(\bA|\bB|...)\s*years", t) for the alternatives lits, which
\* begin with a digit
YearsMatch(t, lits) ==
    \E i \in DOMAIN t : \E k \in DOMAIN lits :
        /\ i = 1 \/ ~IsWord(t[i - 1])
        /\ WordAt(t, i, lits[k])
        /\ WordAt(t, SkipWs(t, i + Len(lits[k])), YearsWord)

InferExecutiveWords == <<<<"e","x","e","c","u","t","i","v","e">>, <<"m","a","n","a","g","e","r">>, <<"l","e","a","d">>, <<"d","i","r","e","c","t","o","r">>>>
InferSeniorYears == <<<<"1","0","+">>, <<"8","+">>, <<"7","+">>>>
InferMidYears == <<<<"3","-","5">>, <<"4","-","6">>, <<"3","+">>, <<"5","+">>>>
InferEntryYears == <<<<"0","-","2">>, <<"1","-","2">>, <<"0","-","1">>>>

\* the tests of infer_experience on t = text.lower(), in their order
InferLevel(t) ==
    IF AnyIn(InferExecutiveWords, t) THEN Level("executive")
    ELSE IF Contains(t, <<"s","e","n","i","o","r">>) \/ YearsMatch(t, InferSeniorYears) THEN Level("senior")
    ELSE IF YearsMatch(t, InferMidYears) \/ Contains(t, <<"m","i","d">>) THEN Level("mid")
    ELSE IF Contains(t, <<"e","n","t","r","y">>) \/ YearsMatch(t, InferEntryYears) \/ Contains(t, <<"j","u","n","i","o","r">>)
         THEN Level("entry")
    ELSE NoneT

\* scrape_actuarial_jobs.infer_experience
infer_experience(text) == InferLevel(Lower(text))

SrcSOA == <<"S","O","A">>
SrcCAS == <<"C","A","S">>
SrcIndeed == <<"I","n","d","e","e","d">>

\* `x or "Company"`
CompanyWord == <<"C","o","m","p","a","n","y">>

\* the body of the loop of scrape_soa over the listings of one page
RECURSIVE SoaCards(_, _, _, _)
SoaCards(cards, keywords, locations, remote_only) ==
    IF cards = <<>> THEN <<>>
    ELSE LET el       == Head(cards)
             title    == text_of(el.title)
             company  == text_of(el.company)
             location == text_of(el.location)
             job_url  == safe_urljoin(SoaBase, el.href)
             desc     == normalize_whitespace(el.text)
             job      == Job(gen_id(title, company, location, job_url), title, company, location, desc, parse_salary(desc), infer_experience(desc), job_url, job_url, SrcSOA, TRUE)
             rest     == SoaCards(Tail(cards), keywords, locations, remote_only)
         IN  IF title = <<>> \/ company = <<>> THEN rest
             ELSE IF matches_filters(job, keywords, locations, remote_only)
                  THEN <<job>> \o rest
                  ELSE rest

\* the loop of scrape_soa over the pages 1..max_pages: a page whose fetch
\* raises is skipped (except Exception: continue)
RECURSIVE SoaPages(_, _, _, _)
SoaPages(pages, keywords, locations, remote_only) ==
    IF pages = <<>> THEN <<>>
    ELSE (IF fetch_raises(Head(pages)) THEN <<>>
          ELSE SoaCards(Head(pages).cards, keywords, locations, remote_only))
         \o SoaPages(Tail(pages), keywords, locations, remote_only)

\* scrape_soa(keywords, locations, remote_only, max_pages); pages[k] is what
\* the fetch of page k meets
scrape_soa(pages, keywords, locations, remote_only, max_pages) ==
    Return(SoaPages(SubSeq(pages, 1, max_pages), keywords, locations, remote_only))

\* the body of the loop of scrape_cas over the items of the page
RECURSIVE CasCards(_, _, _, _)
CasCards(cards, keywords, locations, remote_only) ==
    IF cards = <<>> THEN <<>>
    ELSE LET el       == Head(cards)
             title    == text_of(el.title)
             location == text_of(el.location)
             company  == IF text_of(el.company) = <<>> THEN CompanyWord
                         ELSE text_of(el.company)
             job_url  == safe_urljoin(CasBase, el.href)
             desc     == normalize_whitespace(el.text)
             job      == Job(gen_id(title, company, location, job_url), title, company, location, desc, parse_salary(desc), infer_experience(desc), job_url, job_url, SrcCAS, TRUE)
             rest     == CasCards(Tail(cards), keywords, locations, remote_only)
         IN  IF title = <<>> THEN rest
             ELSE IF matches_filters(job, keywords, locations, remote_only)
                  THEN <<job>> \o rest
                  ELSE rest

\* a scrape_cas without its try / except
scrape_cas_uncaught(page, keywords, locations, remote_only, max_pages) ==
    IF fetch_raises(page) THEN Raise("RetryError")
    ELSE Return(CasCards(page.cards, keywords, locations, remote_only))

\* scrape_cas(keywords, locations, remote_only, max_pages): one page; a
\* fetch that raises leaves jobs empty (except Exception: pass)
scrape_cas(page, keywords, locations, remote_only, max_pages) ==
    IF fetch_raises(page) THEN Return(<<>>)
    ELSE Return(CasCards(page.cards, keywords, locations, remote_only))

\* the body of the loop of scrape_indeed over the cards of one page
RECURSIVE IndeedCards(_, _, _, _)
IndeedCards(cards, keywords, locations, remote_only) ==
    IF cards = <<>> THEN <<>>
    ELSE LET c        == Head(cards)
             title    == text_of(c.title)
             company  == text_of(c.company)
             location == text_of(c.location)
             job_url  == safe_urljoin(IndeedBase, IF c.title = NoneT THEN NoneT ELSE c.href)
             snippet  == text_of(c.snippet)
             job      == Job(gen_id(title, company, location, job_url), title, company, location, snippet, parse_salary(c.text), infer_experience(snippet), job_url, job_url, SrcIndeed, FALSE)
             rest     == IndeedCards(Tail(cards), keywords, locations, remote_only)
         IN  IF title = <<>> \/ company = <<>> THEN rest
             ELSE IF matches_filters(job, keywords, locations, remote_only)
                  THEN <<job>> \o rest
                  ELSE rest

RECURSIVE IndeedPages(_, _, _, _)
IndeedPages(pages, keywords, locations, remote_only) ==
    IF pages = <<>> THEN <<>>
    ELSE (IF fetch_raises(Head(pages)) THEN <<>>
          ELSE IndeedCards(Head(pages).cards, keywords, locations, remote_only))
         \o IndeedPages(Tail(pages), keywords, locations, remote_only)

\* the loop of scrape_indeed over locs; site[i] are the result pages of the
\* query for locs[i]
RECURSIVE IndeedLocs(_, _, _, _, _)
IndeedLocs(site, keywords, locations, remote_only, max_pages) ==
    IF site = <<>> THEN <<>>
    ELSE IndeedPages(SubSeq(Head(site), 1, max_pages), keywords, locations, remote_only)
         \o IndeedLocs(Tail(site), keywords, locations, remote_only, max_pages)

\* locs = locations or [""]: the number of queries scrape_indeed makes
IndeedQueries(locations) == IF locations = <<>> THEN 1 ELSE Len(locations)

\* scrape_indeed(keywords, locations, remote_only, max_pages)
scrape_indeed(site, keywords, locations, remote_only, max_pages) ==
    Return(IndeedLocs(SubSeq(site, 1, IndeedQueries(locations)), keywords, locations, remote_only, max_pages))

\* a line of the summary an orchestrator prints for one source: the number
\* found, or the error caught
Line(name, r) ==
    [name |-> name, found |-> IF r.raised THEN 0 ELSE Len(r.jobs),
     error |-> r.raised, skipped |-> FALSE]

\* what the source adds to all_jobs: nothing when the call raised
Extend(r) == IF r.raised THEN <<>> ELSE r.jobs

\* the end of run_scrape as it would be if the lists were put together in
\* the reverse order of the sources
RunResultLastSourceFirst(soa, cas, indeed) ==
    [jobs |-> sort_jobs(dedupe(Extend(indeed) \o Extend(cas) \o Extend(soa))),
     log  |-> <<Line(SrcSOA, soa), Line(SrcCAS, cas), Line(SrcIndeed, indeed)>>,
     adapters |-> <<soa, cas, indeed>>]

\* the end of run_scrape, with what the three adapters returned: the lists
\* are concatenated, deduplicated and sorted
RunResult(soa, cas, indeed) ==
    [jobs |-> sort_jobs(dedupe(Extend(soa) \o Extend(cas) \o Extend(indeed))),
     log  |-> <<Line(SrcSOA, soa), Line(SrcCAS, cas), Line(SrcIndeed, indeed)>>,
     adapters |-> <<soa, cas, indeed>>]

\* run_scrape(keywords, locations, remote_only, max_pages): web holds what
\* the three sites answer
run_scrape(web, keywords, locations, remote_only, max_pages) ==
    RunResult(scrape_soa(web.soa, keywords, locations, remote_only, max_pages),
              scrape_cas(web.cas, keywords, locations, remote_only, max_pages),
              scrape_indeed(web.indeed, keywords, locations, remote_only, max_pages))
-----------------------------------------------------------------------------
(* scrape_company_boards.py: token detection, the three adapters, main     *)

GreenhouseHost == <<"b","o","a","r","d","s",".","g","r","e","e","n","h","o","u","s","e",".","i","o">>
LeverHost == <<"j","o","b","s",".","l","e","v","e","r",".","c","o">>
SrcGreenhouse == <<"G","r","e","e","n","h","o","u","s","e">>
SrcLever == <<"L","e","v","e","r">>
SrcWorkday == <<"W","o","r","k","d","a","y">>
WorkdayWord == <<"w","o","r","k","d","a","y">>

\* `a or b` for str and None
Or(a, b) == IF a = NoneT \/ a = <<>> THEN b ELSE a

\* urlparse(url).path for a URL scheme://host/path or a text without scheme
UrlPath(url) ==
    IF HasScheme(url) /\ NthSlash(url, 2, 1) # 0
    THEN IF NthSlash(url, 3, 1) = 0 THEN <<>>
         ELSE SubSeq(url, NthSlash(url, 3, 1), Len(url))
    ELSE url

\* urlparse(url).hostname, NoneT for a text without scheme
UrlHost(url) ==
    IF HasScheme(url) /\ NthSlash(url, 2, 1) # 0
    THEN LET e == IF NthSlash(url, 3, 1) = 0 THEN Len(url)
                  ELSE NthSlash(url, 3, 1) - 1
             h == Lower(SubSeq(url, NthSlash(url, 2, 1) + 1, e))
         IN  IF h = <<>> THEN NoneT ELSE h
    ELSE NoneT

\* str.strip("/")
RECURSIVE StripSlashes(_)
StripSlashes(t) ==
    IF t # <<>> /\ Head(t) = "/" THEN StripSlashes(Tail(t))
    ELSE IF t # <<>> /\ t[Len(t)] = "/" THEN StripSlashes(SubSeq(t, 1, Len(t) - 1))
    ELSE t

\* t.split("/")[0] and t.split("/")[-1]
FirstSegment(t) ==
    IF NthSlash(t, 1, 1) = 0 THEN t ELSE SubSeq(t, 1, NthSlash(t, 1, 1) - 1)

LastSegment(t) == SubSeq(t, LastSlash(t) + 1, Len(t))

\* re.fullmatch(r"[a-z0-9-]+", entry)
LooksLikeToken(entry) ==
    /\ entry # <<>>
    /\ \A i \in DOMAIN entry : entry[i] \in LowerSet \cup DigitSet \cup {"-"}

\* extract_greenhouse_token
extract_greenhouse_token(entry) ==
    IF Contains(entry, GreenhouseHost) THEN LastSegment(StripSlashes(UrlPath(entry)))
    ELSE IF LooksLikeToken(entry) THEN entry
    ELSE NoneT

\* extract_lever_token
extract_lever_token(entry) ==
    IF Contains(entry, LeverHost) THEN FirstSegment(StripSlashes(UrlPath(entry)))
    ELSE IF LooksLikeToken(entry) THEN entry
    ELSE NoneT

\* Job(...) as the three adapters call it: no salary, no experience level
BoardsJob(title, company, location, description, url, apply_url, source) ==
    Job(gen_id(title, company, location, url), title, company, location, description, <<>>, NoneT, url, apply_url, source, FALSE)

\* the loop of scrape_greenhouse_board over data["jobs"]
RECURSIVE GreenhouseItems(_, _, _, _, _)
GreenhouseItems(items, token, keywords, locations, remote_only) ==
    IF items = <<>> THEN <<>>
    ELSE LET item  == Head(items)
             title == normalize(item.title)
             absolute_url == Or(item.href, <<>>)
             job   == BoardsJob(title, token, normalize(item.location), normalize(item.text), absolute_url, absolute_url, SrcGreenhouse \o <<":">> \o token)
             rest  == GreenhouseItems(Tail(items), token, keywords, locations, remote_only)
         IN  IF title # <<>> /\ boards_matches_filters(job, keywords, locations, remote_only)
             THEN <<job>> \o rest
             ELSE rest

\* requests.get, the 404 test, raise_for_status and r.json(): what is
\* raised for the page, "" when nothing is
RequestError(page) ==
    CASE page.status = "neterr"  -> "ConnectionError"
      [] page.status = "404"     -> "RuntimeError"
      [] page.status = "500"     -> "HTTPError"
      [] page.status = "badbody" -> "JSONDecodeError"
      [] OTHER                   -> ""

\* scrape_greenhouse_board(token, keywords, locations, remote_only)
scrape_greenhouse_board(page, token, keywords, locations, remote_only) ==
    IF RequestError(page) # "" THEN Raise(RequestError(page))
    ELSE Return(GreenhouseItems(page.cards, token, keywords, locations, remote_only))

\* the loop of scrape_lever_board over the postings
RECURSIVE LeverItems(_, _, _, _, _)
LeverItems(items, token, keywords, locations, remote_only) ==
    IF items = <<>> THEN <<>>
    ELSE LET item  == Head(items)
             title == normalize(item.title)
             url_detail == Or(item.href, Or(item.apply, <<>>))
             job   == BoardsJob(title, token, normalize(item.location), normalize(item.text), url_detail, Or(item.apply, url_detail), SrcLever \o <<":">> \o token)
             rest  == LeverItems(Tail(items), token, keywords, locations, remote_only)
         IN  IF title # <<>> /\ boards_matches_filters(job, keywords, locations, remote_only)
             THEN <<job>> \o rest
             ELSE rest

\* scrape_lever_board(token, keywords, locations, remote_only)
scrape_lever_board(page, token, keywords, locations, remote_only) ==
    IF RequestError(page) # "" THEN Raise(RequestError(page))
    ELSE Return(LeverItems(page.cards, token, keywords, locations, remote_only))

\* the loop of scrape_workday_endpoint over the items of one page
RECURSIVE WorkdayItems(_, _, _, _, _)
WorkdayItems(items, company, keywords, locations, remote_only) ==
    IF items = <<>> THEN <<>>
    ELSE LET item  == Head(items)
             title == normalize(item.title)
             url_detail == Or(item.href, <<>>)
             job   == BoardsJob(title, company, normalize(item.location), normalize(Or(item.text, <<>>)), url_detail, url_detail, SrcWorkday \o <<":">> \o company)
             rest  == WorkdayItems(Tail(items), company, keywords, locations, remote_only)
         IN  IF title # <<>> /\ boards_matches_filters(job, keywords, locations, remote_only)
             THEN <<job>> \o rest
             ELSE rest

\* the loop of scrape_workday_endpoint over the pages: an error on any page
\* is raised, a page without items ends the loop
RECURSIVE WorkdayPages(_, _, _, _, _, _)
WorkdayPages(pages, acc, company, keywords, locations, remote_only) ==
    IF pages = <<>> THEN Return(acc)
    ELSE IF RequestError(Head(pages)) # "" THEN Raise(RequestError(Head(pages)))
    ELSE IF Head(pages).cards = <<>> THEN Return(acc)
    ELSE WorkdayPages(Tail(pages), acc \o WorkdayItems(Head(pages).cards, company, keywords, locations, remote_only), company, keywords, locations, remote_only)

\* pages=2, the default main calls scrape_workday_endpoint with
WorkdayDefaultPages == 2

\* scrape_workday_endpoint(endpoint_url, keywords, locations, remote_only)
scrape_workday_endpoint(pages, endpoint_url, keywords, locations, remote_only) ==
    WorkdayPages(SubSeq(pages, 1, WorkdayDefaultPages), <<>>, Or(UrlHost(endpoint_url), WorkdayWord), keywords, locations, remote_only)

\* the line main prints for an entry it finds no token in
Skipped(name) == [name |-> name, found |-> 0, error |-> FALSE, skipped |-> TRUE]

\* the Greenhouse loop of main: entries[i] is answered by pages[i].
\* Returns [all_jobs, log, adapters].
RECURSIVE MainGreenhouse(_, _, _, _)
MainGreenhouse(entries, pages, args, acc) ==
    IF entries = <<>> THEN acc
    ELSE LET token == extract_greenhouse_token(Head(entries))
             r     == scrape_greenhouse_board(Head(pages), token, args.keywords, args.locations, args.remote_only)
         IN  MainGreenhouse(Tail(entries), Tail(pages), args,
               IF token = NoneT \/ token = <<>>
               THEN [acc EXCEPT !.log = Append(@, Skipped(Head(entries)))]
               ELSE [all_jobs |-> acc.all_jobs \o Extend(r),
                     log |-> Append(acc.log, Line(token, r)),
                     adapters |-> Append(acc.adapters, r)])

\* the Lever loop of main
RECURSIVE MainLever(_, _, _, _)
MainLever(entries, pages, args, acc) ==
    IF entries = <<>> THEN acc
    ELSE LET token == extract_lever_token(Head(entries))
             r     == scrape_lever_board(Head(pages), token, args.keywords, args.locations, args.remote_only)
         IN  MainLever(Tail(entries), Tail(pages), args,
               IF token = NoneT \/ token = <<>>
               THEN [acc EXCEPT !.log = Append(@, Skipped(Head(entries)))]
               ELSE [all_jobs |-> acc.all_jobs \o Extend(r),
                     log |-> Append(acc.log, Line(token, r)),
                     adapters |-> Append(acc.adapters, r)])

\* the Workday loop of main
RECURSIVE MainWorkday(_, _, _, _)
MainWorkday(endpoints, sites, args, acc) ==
    IF endpoints = <<>> THEN acc
    ELSE LET r == scrape_workday_endpoint(Head(sites), Head(endpoints), args.keywords, args.locations, args.remote_only)
         IN  MainWorkday(Tail(endpoints), Tail(sites), args,
               [all_jobs |-> acc.all_jobs \o Extend(r),
                log |-> Append(acc.log, Line(Head(endpoints), r)),
                adapters |-> Append(acc.adapters, r)])

\* the end of main: dedupe, sort_jobs and save_output
BoardsResult(w) ==
    [jobs |-> boards_sort_jobs(boards_dedupe(w.all_jobs)),
     log |-> w.log, adapters |-> w.adapters]

\* scrape_company_boards.main with the parsed arguments args; web holds
\* what the boards answer.  jobs is what save_output writes.
boards_main(web, args) ==
    BoardsResult(
        MainWorkday(args.workday_endpoints, web.workday, args,
            MainLever(args.lever, web.lever, args,
                MainGreenhouse(args.greenhouse, web.greenhouse, args,
                               [all_jobs |-> <<>>, log |-> <<>>, adapters |-> <<>>]))))

-----------------------------------------------------------------------------
(* job_scraper.py: ActuarialJobScraper.  self is [location, keywords]; the *)
(* adapters take self.seen_ids and return it with the ids they added.      *)

DefaultKeywords == <<<<"a","c","t","u","a","r","i","a","l">>, <<"a","c","t","u","a","r","y">>, <<"a","c","t","u","a","r","i","a","l"," ","a","n","a","l","y","s","t">>, <<"a","c","t","u","a","r","i","a","l"," ","s","c","i","e","n","t","i","s","t">>, <<"p","r","i","c","i","n","g"," ","a","c","t","u","a","r","y">>, <<"r","e","s","e","r","v","i","n","g"," ","a","c","t","u","a","r","y">>, <<"r","i","s","k"," ","a","n","a","l","y","s","t">>, <<"i","n","s","u","r","a","n","c","e"," ","a","n","a","l","y","s","t">>>>
DefaultLocation == <<"I","n","d","i","a">>
UnknownCompany == <<"U","n","k","n","o","w","n"," ","C","o","m","p","a","n","y">>
SrcNaukri == <<"N","a","u","k","r","i">>
SrcIndeedIndia == <<"I","n","d","e","e","d">>
SrcLinkedIn == <<"L","i","n","k","e","d","I","n">>
NaukriRoot == <<"h","t","t","p","s",":","/","/","w","w","w",".","n","a","u","k","r","i",".","c","o","m">>
IndeedIndiaRoot == <<"h","t","t","p","s",":","/","/","i","n",".","i","n","d","e","e","d",".","c","o","m">>
LinkedInSearch == <<"h","t","t","p","s",":","/","/","w","w","w",".","l","i","n","k","e","d","i","n",".","c","o","m","/","j","o","b","s","/","s","e","a","r","c","h">>

\* ActuarialJobScraper.__init__: location and `keywords or [...]`
NewSelf(location, keywords) ==
    [location |-> location,
     keywords |-> IF keywords = <<>> THEN DefaultKeywords ELSE keywords]

\* hashlib.md5(...).hexdigest()[:16]: a function of the text hashed; the
\* digests of different texts are taken to differ
Md5Hex16(t) == t

\* generate_job_id: the url is no part of the id
generate_job_id(title, company, location) ==
    Md5Hex16(Lower(title \o <<"|">> \o company \o <<"|">> \o location))

\* any(word in text for word in words)
AnyWord(words, text) == \E i \in DOMAIN words : Contains(text, words[i])

SeniorWords == <<<<"s","e","n","i","o","r">>, <<"l","e","a","d">>, <<"p","r","i","n","c","i","p","a","l">>, <<"1","0","+"," ","y","e","a","r","s">>, <<"8","+"," ","y","e","a","r","s">>, <<"s","r",".">>>>
ExecutiveWords == <<<<"m","a","n","a","g","e","r">>, <<"d","i","r","e","c","t","o","r">>, <<"v","p">>, <<"c","h","i","e","f">>, <<"h","e","a","d">>>>
MidWords == <<<<"m","i","d","-","l","e","v","e","l">>, <<"3","-","5"," ","y","e","a","r","s">>, <<"4","-","7"," ","y","e","a","r","s">>, <<"e","x","p","e","r","i","e","n","c","e","d">>, <<"2","-","4"," ","y","e","a","r","s">>>>
EntryWords == <<<<"e","n","t","r","y">>, <<"j","u","n","i","o","r">>, <<"a","s","s","o","c","i","a","t","e">>, <<"0","-","2"," ","y","e","a","r","s">>, <<"g","r","a","d","u","a","t","e">>, <<"f","r","e","s","h","e","r">>, <<"t","r","a","i","n","e","e">>>>

\* determine_experience_level
determine_experience_level(title, description) ==
    LET text == Lower(title \o <<" ">> \o description)
    IN  IF AnyWord(SeniorWords, text) THEN "senior"
        ELSE IF AnyWord(ExecutiveWords, text) THEN "executive"
        ELSE IF AnyWord(MidWords, text) THEN "mid"
        ELSE IF AnyWord(EntryWords, text) THEN "entry"
        ELSE "mid"

InternWord == <<"i","n","t","e","r","n">>
ContractWords == <<<<"c","o","n","t","r","a","c","t">>, <<"c","o","n","t","r","a","c","t","o","r">>, <<"t","e","m","p">>, <<"t","e","m","p","o","r","a","r","y">>, <<"f","r","e","e","l","a","n","c","e">>>>
PartTimeWords == <<<<"p","a","r","t","-","t","i","m","e">>, <<"p","a","r","t"," ","t","i","m","e">>, <<"p","a","r","t","t","i","m","e">>>>

\* determine_job_type
determine_job_type(title, description) ==
    LET text == Lower(title \o <<" ">> \o description)
    IN  IF Contains(text, InternWord) THEN "internship"
        ELSE IF AnyWord(ContractWords, text) THEN "contract"
        ELSE IF AnyWord(PartTimeWords, text) THEN "part-time"
        ELSE "full-time"

\* skills_keywords of extract_skills, each with the name it is listed under
\* (upper case, "R", or str.title())
SkillsKeywords ==
    <<<<<<"e","x","c","e","l">>, <<"E","x","c","e","l">>>>,
     <<<<"v","b","a">>, <<"V","B","A">>>>,
     <<<<"s","q","l">>, <<"S","Q","L">>>>,
     <<<<"p","y","t","h","o","n">>, <<"P","y","t","h","o","n">>>>,
     <<<<"r">>, <<"R">>>>,
     <<<<"s","a","s">>, <<"S","A","S">>>>,
     <<<<"s","t","a","t","a">>, <<"S","t","a","t","a">>>>,
     <<<<"t","a","b","l","e","a","u">>, <<"T","a","b","l","e","a","u">>>>,
     <<<<"p","o","w","e","r"," ","b","i">>, <<"P","o","w","e","r"," ","B","i">>>>,
     <<<<"p","o","w","e","r","b","i">>, <<"P","o","w","e","r","b","i">>>>,
     <<<<"a","c","c","e","s","s">>, <<"A","c","c","e","s","s">>>>,
     <<<<"m","a","t","l","a","b">>, <<"M","a","t","l","a","b">>>>,
     <<<<"c","+","+">>, <<"C","+","+">>>>,
     <<<<"j","a","v","a">>, <<"J","a","v","a">>>>,
     <<<<"j","a","v","a","s","c","r","i","p","t">>, <<"J","a","v","a","s","c","r","i","p","t">>>>,
     <<<<"h","a","d","o","o","p">>, <<"H","a","d","o","o","p">>>>,
     <<<<"s","p","a","r","k">>, <<"S","p","a","r","k">>>>,
     <<<<"a","z","u","r","e">>, <<"A","z","u","r","e">>>>,
     <<<<"a","w","s">>, <<"A","W","S">>>>,
     <<<<"g","c","p">>, <<"G","C","P">>>>,
     <<<<"m","a","c","h","i","n","e"," ","l","e","a","r","n","i","n","g">>, <<"M","a","c","h","i","n","e"," ","L","e","a","r","n","i","n","g">>>>,
     <<<<"a","i">>, <<"A","I">>>>,
     <<<<"p","r","o","p","h","e","t">>, <<"P","r","o","p","h","e","t">>>>,
     <<<<"m","o","s","e","s">>, <<"M","o","s","e","s">>>>,
     <<<<"e","m","b","l","e","m">>, <<"E","m","b","l","e","m">>>>,
     <<<<"a","x","i","s">>, <<"A","x","i","s">>>>,
     <<<<"i","g","l","o","o">>, <<"I","g","l","o","o">>>>>>

\* the loop of extract_skills over skills_keywords[k..]
RECURSIVE FoundSkills(_, _)
FoundSkills(description_lower, k) ==
    IF k > Len(SkillsKeywords) THEN <<>>
    ELSE (IF Contains(description_lower, SkillsKeywords[k][1])
          THEN <<SkillsKeywords[k][2]>> ELSE <<>>)
         \o FoundSkills(description_lower, k + 1)

\* extract_skills: the names are pairwise different, so dict.fromkeys
\* removes none
extract_skills(description) == FoundSkills(Lower(description), 1)

\* the dict an adapter builds for a posting; salary is <<>> when the key is
\* not set.  skills, qualifications and certifications are left out.
IndiaJob(id, title, company, location, description, url, source, jobType, experienceLevel, posted_date, featured, salary) ==
    [id |-> id, title |-> title, company |-> company, location |-> location,
     description |-> description, url |-> url, source |-> source,
     jobType |-> jobType, experienceLevel |-> experienceLevel,
     posted_date |-> posted_date, featured |-> featured, salary |-> salary]

\* self.clean_text(elem.get_text()) if elem else default
CleanOr(raw, default) == IF raw = NoneT THEN default ELSE clean_text(raw)

\* str.replace(a, b) for single characters
ReplaceCh(t, a, b) == [i \in DOMAIN t |-> IF t[i] = a THEN b ELSE t[i]]

\* str(n) for n >= 0
RECURSIVE IntText(_)
IntText(n) ==
    IF n < 10 THEN <<DigitSeq[n + 1]>>
    ELSE IntText(n \div 10) \o <<DigitSeq[(n % 10) + 1]>>

\* urllib.parse.quote_plus for texts of letters, digits, "-", ".", "_" and
\* spaces
QuotePlus(t) == ReplaceCh(t, " ", "+")

\* the page of the site for the k-th keyword and the p-th request; a
\* request the site description does not list finds a page without listings
PageAt(site, k, p) ==
    IF k \in DOMAIN site /\ p \in DOMAIN site[k] THEN site[k][p]
    ELSE Page("ok", <<>>)

\* self.session.get(...) or response.raise_for_status() raises
get_raises(page) == page.status \in {"404", "500", "neterr"}

\* the url scrape_naukri requests for a keyword and a page
NaukriUrl(keyword, location, page) ==
    NaukriRoot \o <<"/">> \o ReplaceCh(keyword, " ", "-") \o <<"-","j","o","b","s","-","i","n","-">> \o Lower(location)
    \o <<"?","k","=">> \o QuotePlus(keyword) \o <<"&","l","=">> \o QuotePlus(location)
    \o <<"&","p","a","g","e","=">> \o IntText(page)

\* the loop of scrape_naukri over the cards of one page; acc is
\* [jobs, seen_ids]
RECURSIVE NaukriCards(_, _, _, _, _)
NaukriCards(cards, acc, self, url, now) ==
    IF cards = <<>> THEN acc
    ELSE LET card     == Head(cards)
             title    == CleanOr(card.title, NoneT)
             company  == CleanOr(card.company, UnknownCompany)
             location == CleanOr(card.location, self.location)
             experience  == CleanOr(card.experience, <<>>)
             salary_text == CleanOr(card.salary, <<>>)
             description == CleanOr(card.snippet, title \o <<" ","a","t"," ">> \o company)
             href     == IF card.title # NoneT /\ card.href # NoneT /\ card.href # <<>>
                         THEN card.href ELSE url
             job_link == IF HasScheme(href) THEN href ELSE NaukriRoot \o href
             job_id   == generate_job_id(title, company, location)
             full_text == title \o <<" ">> \o description \o <<" ">> \o experience \o <<" ">> \o salary_text
             job      == IndiaJob(job_id, title, company, location, description, job_link, SrcNaukri, determine_job_type(title, full_text), determine_experience_level(title, full_text), now, FALSE, extract_salary(salary_text \o <<" ">> \o description))
         IN  IF title = NoneT \/ title = <<>> \/ job_id \in acc.seen_ids
             THEN NaukriCards(Tail(cards), acc, self, url, now)
             ELSE NaukriCards(Tail(cards),
                              [jobs |-> Append(acc.jobs, job),
                               seen_ids |-> acc.seen_ids \cup {job_id}],
                              self, url, now)

\* the loop of scrape_naukri over the pages p..max_pages of the k-th
\* keyword: a request that raises is skipped, a page without cards ends
\* the keyword
RECURSIVE NaukriPages(_, _, _, _, _, _, _)
NaukriPages(site, k, p, acc, self, now, max_pages) ==
    IF p > max_pages THEN acc
    ELSE IF get_raises(PageAt(site, k, p))
         THEN NaukriPages(site, k, p + 1, acc, self, now, max_pages)
    ELSE IF PageAt(site, k, p).cards = <<>> THEN acc
    ELSE NaukriPages(site, k, p + 1,
                     NaukriCards(PageAt(site, k, p).cards, acc, self,
                                 NaukriUrl(self.keywords[k], self.location, p), now),
                     self, now, max_pages)

RECURSIVE NaukriKeywords(_, _, _, _, _, _)
NaukriKeywords(site, k, acc, self, now, max_pages) ==
    IF k > Len(self.keywords) THEN acc
    ELSE NaukriKeywords(site, k + 1, NaukriPages(site, k, 1, acc, self, now, max_pages),
                        self, now, max_pages)

\* what a method of the scraper returns: the list, and self.seen_ids after
Done(acc) ==
    [raised |-> FALSE, error |-> "", jobs |-> acc.jobs, seen_ids |-> acc.seen_ids]

\* scrape_naukri(max_pages), called with self.seen_ids = seen on the day now
scrape_naukri(site, self, seen, now, max_pages) ==
    Done(NaukriKeywords(site, 1, [jobs |-> <<>>, seen_ids |-> seen], self, now, max_pages))

\* the url scrape_indeed_india requests for a keyword and a page (from 0)
IndeedIndiaUrl(keyword, location, page) ==
    IndeedIndiaRoot \o <<"/","j","o","b","s","?","q","=">> \o QuotePlus(keyword) \o <<"&","l","=">> \o QuotePlus(location)
    \o <<"&","s","t","a","r","t","=">> \o IntText(page * 10)

\* the loop of scrape_indeed_india over the cards of one page
RECURSIVE IndeedIndiaCards(_, _, _, _, _)
IndeedIndiaCards(cards, acc, self, url, now) ==
    IF cards = <<>> THEN acc
    ELSE LET card     == Head(cards)
             title    == CleanOr(card.title, NoneT)
             company  == CleanOr(card.company, UnknownCompany)
             location == CleanOr(card.location, self.location)
             job_link == IF card.title # NoneT /\ card.href # NoneT /\ card.href # <<>>
                         THEN IndeedIndiaRoot \o card.href ELSE url
             description == CleanOr(card.snippet, <<>>)
             salary_text == CleanOr(card.salary, <<>>)
             job_id   == generate_job_id(title, company, location)
             full_text == title \o <<" ">> \o description \o <<" ">> \o salary_text
             job      == IndiaJob(job_id, title, company, location, Or(description, title \o <<" ","a","t"," ">> \o company), job_link, SrcIndeedIndia, determine_job_type(title, full_text), determine_experience_level(title, full_text), now, FALSE, extract_salary(salary_text \o <<" ">> \o description))
         IN  IF title = NoneT \/ title = <<>> \/ job_id \in acc.seen_ids
             THEN IndeedIndiaCards(Tail(cards), acc, self, url, now)
             ELSE IndeedIndiaCards(Tail(cards),
                                   [jobs |-> Append(acc.jobs, job),
                                    seen_ids |-> acc.seen_ids \cup {job_id}],
                                   self, url, now)

\* the loop of scrape_indeed_india over the pages p..max_pages-1 of the
\* k-th keyword (request p + 1 of the keyword): a request that raises is
\* skipped
RECURSIVE IndeedIndiaPages(_, _, _, _, _, _, _)
IndeedIndiaPages(site, k, p, acc, self, now, max_pages) ==
    IF p >= max_pages THEN acc
    ELSE IF get_raises(PageAt(site, k, p + 1))
         THEN IndeedIndiaPages(site, k, p + 1, acc, self, now, max_pages)
    ELSE IndeedIndiaPages(site, k, p + 1,
                          IndeedIndiaCards(PageAt(site, k, p + 1).cards, acc, self,
                                           IndeedIndiaUrl(self.keywords[k], self.location, p), now),
                          self, now, max_pages)

RECURSIVE IndeedIndiaKeywords(_, _, _, _, _, _)
IndeedIndiaKeywords(site, k, acc, self, now, max_pages) ==
    IF k > Len(self.keywords) THEN acc
    ELSE IndeedIndiaKeywords(site, k + 1,
                             IndeedIndiaPages(site, k, 0, acc, self, now, max_pages),
                             self, now, max_pages)

\* scrape_indeed_india(max_pages)
scrape_indeed_india(site, self, seen, now, max_pages) ==
    Done(IndeedIndiaKeywords(site, 1, [jobs |-> <<>>, seen_ids |-> seen], self, now, max_pages))

\* self.keywords[:2] and job_cards[:20]
LinkedInKeywordLimit == 2
LinkedInCardLimit == 20

\* the url scrape_linkedin_india requests for a keyword
LinkedInUrl(keyword, location) ==
    LinkedInSearch \o <<"?","k","e","y","w","o","r","d","s","=">> \o QuotePlus(keyword) \o <<"&","l","o","c","a","t","i","o","n","=">> \o QuotePlus(location) \o <<"&","f","_","W","T","=","2">>

\* the loop of scrape_linkedin_india over the cards of one page
RECURSIVE LinkedInCards(_, _, _, _, _)
LinkedInCards(cards, acc, self, url, now) ==
    IF cards = <<>> THEN acc
    ELSE LET card     == Head(cards)
             title    == CleanOr(card.title, NoneT)
             company  == CleanOr(card.company, UnknownCompany)
             location == CleanOr(card.location, self.location)
             job_link == IF card.href # NoneT /\ card.href # <<>> THEN card.href ELSE url
             job_id   == generate_job_id(title, company, location)
             job      == IndiaJob(job_id, title, company, location, title \o <<" ","p","o","s","i","t","i","o","n"," ","a","t"," ">> \o company, job_link, SrcLinkedIn, determine_job_type(title, <<>>), determine_experience_level(title, <<>>), now, TRUE, <<>>)
         IN  IF title = NoneT \/ title = <<>> \/ job_id \in acc.seen_ids
             THEN LinkedInCards(Tail(cards), acc, self, url, now)
             ELSE LinkedInCards(Tail(cards),
                                [jobs |-> Append(acc.jobs, job),
                                 seen_ids |-> acc.seen_ids \cup {job_id}],
                                self, url, now)

\* the loop of scrape_linkedin_india over the first keywords: one request
\* each, skipped when it raises
RECURSIVE LinkedInKeywords(_, _, _, _, _)
LinkedInKeywords(site, k, acc, self, now) ==
    IF k > Len(self.keywords) \/ k > LinkedInKeywordLimit THEN acc
    ELSE IF get_raises(PageAt(site, k, 1))
         THEN LinkedInKeywords(site, k + 1, acc, self, now)
    ELSE LinkedInKeywords(site, k + 1,
                          LinkedInCards(SubSeq(PageAt(site, k, 1).cards, 1, Min({LinkedInCardLimit, Len(PageAt(site, k, 1).cards)})),
                                        acc, self, LinkedInUrl(self.keywords[k], self.location), now),
                          self, now)

\* a scrape_linkedin_india that keeps a seen-id set of its own
scrape_linkedin_own_seen(site, self, seen, now, max_pages) ==
    Done(LinkedInKeywords(site, 1, [jobs |-> <<>>, seen_ids |-> {}], self, now))

\* scrape_linkedin_india(max_pages): max_pages is not used
scrape_linkedin_india(site, self, seen, now, max_pages) ==
    Done(LinkedInKeywords(site, 1, [jobs |-> <<>>, seen_ids |-> seen], self, now))

\* the max_pages scrape_all passes
NaukriMaxPages == 5
IndeedIndiaMaxPages == 3
LinkedInMaxPages == 2

\* the end of scrape_all, with what the three adapters returned: the lists
\* are concatenated
ScrapeAllResult(naukri, indeed, linkedin) ==
    [jobs |-> naukri.jobs \o indeed.jobs \o linkedin.jobs,
     seen_ids |-> linkedin.seen_ids,
     log |-> <<Line(SrcNaukri, naukri), Line(SrcIndeedIndia, indeed), Line(SrcLinkedIn, linkedin)>>,
     adapters |-> <<naukri, indeed, linkedin>>]

\* scrape_all from its third call on
ScrapeAllLinkedIn(web, self, now, naukri, indeed) ==
    ScrapeAllResult(naukri, indeed,
                    scrape_linkedin_india(web.linkedin, self, indeed.seen_ids, now, LinkedInMaxPages))

\* scrape_all from its second call on
ScrapeAllIndeed(web, self, now, naukri) ==
    ScrapeAllLinkedIn(web, self, now, naukri,
                      scrape_indeed_india(web.indeed, self, naukri.seen_ids, now, IndeedIndiaMaxPages))

\* scrape_all(): web is [naukri, indeed, linkedin]; jobs is the list
\* returned and kept as self.jobs, seen_ids is self.seen_ids after the call
scrape_all(web, self, seen, now) ==
    ScrapeAllIndeed(web, self, now, scrape_naukri(web.naukri, self, seen, now, NaukriMaxPages))

-----------------------------------------------------------------------------
(* job_scraper.py: saving; scraper_api.py: the HTTP API                    *)

JsonSuffix == <<".","j","s","o","n">>
FilenameLen == 50

\* re.sub(r"[^a-z0-9]+", "-", t): every run of other characters becomes "-"
RECURSIVE DashRuns(_)
DashRuns(t) ==
    IF t = <<>> THEN <<>>
    ELSE IF Head(t) \in LowerSet \cup DigitSet THEN <<Head(t)>> \o DashRuns(Tail(t))
    ELSE IF Len(t) > 1 /\ t[2] \notin LowerSet \cup DigitSet THEN DashRuns(Tail(t))
    ELSE <<"-">> \o DashRuns(Tail(t))

\* str.strip("-")
RECURSIVE StripDashes(_)
StripDashes(t) ==
    IF t = <<>> THEN <<>>
    ELSE IF Head(t) = "-" THEN StripDashes(Tail(t))
    ELSE IF t[Len(t)] = "-" THEN StripDashes(SubSeq(t, 1, Len(t) - 1))
    ELSE t

\* the file name save_individual_files gives a posting
job_filename(job) ==
    Prefix(StripDashes(DashRuns(Lower(job.title \o <<"-">> \o job.company))), FilenameLen)
    \o JsonSuffix

\* open(path, "w") and json.dump: the file at path is replaced
WriteFile(dir, path, content) ==
    {f \in dir : f.path # path} \cup {[path |-> path, content |-> content]}

\* save_individual_files: one write per posting, in the order of self.jobs
RECURSIVE save_individual_files(_, _)
save_individual_files(js, dir) ==
    IF js = <<>> THEN dir
    ELSE save_individual_files(Tail(js), WriteFile(dir, job_filename(Head(js)), Head(js)))

batch_size == 50

\* what the portal answers to the b-th batch; an answer that is not listed
\* is a 200 with a well-formed body
PortalAnswer(answers, b) == IF b \in DOMAIN answers THEN answers[b] ELSE "200"

\* save_jobs_to_portal as it would be if a batch ran one posting into the next
RECURSIVE PostBatchesOverlapping(_, _, _, _)
PostBatchesOverlapping(js, i, answers, sent) ==
    IF i >= Len(js) THEN [ok |-> TRUE, batches |-> sent]
    ELSE LET batch == SubSeq(js, i + 1, Min({i + batch_size + 1, Len(js)}))
             a     == PortalAnswer(answers, (i \div batch_size) + 1)
         IN  IF a = "neterr" THEN [ok |-> FALSE, batches |-> sent]
             ELSE IF a = "badbody" THEN [ok |-> FALSE, batches |-> Append(sent, batch)]
             ELSE PostBatchesOverlapping(js, i + batch_size, answers, Append(sent, batch))

\* the loop of save_jobs_to_portal from index i on: a request that raises,
\* or a 200 whose body has no data.inserted, ends it with False
RECURSIVE PostBatches(_, _, _, _)
PostBatches(js, i, answers, sent) ==
    IF i >= Len(js) THEN [ok |-> TRUE, batches |-> sent]
    ELSE LET batch == SubSeq(js, i + 1, Min({i + batch_size, Len(js)}))
             a     == PortalAnswer(answers, (i \div batch_size) + 1)
         IN  IF a = "neterr" THEN [ok |-> FALSE, batches |-> sent]
             ELSE IF a = "badbody" THEN [ok |-> FALSE, batches |-> Append(sent, batch)]
             ELSE PostBatches(js, i + batch_size, answers, Append(sent, batch))

\* save_jobs_to_portal(jobs): ok is what it returns, batches are the
\* request bodies the portal received
save_jobs_to_portal(js, answers) == PostBatches(js, 0, answers, <<>>)

\* a status message: the text, and the number or the error put into it
Msg(text) == [text |-> text, n |-> 0, error |-> ""]

\* scraping_status as the module defines it
InitialStatus ==
    [is_running |-> FALSE, progress |-> 0, total_jobs |-> 0,
     status_message |-> Msg("Idle"), started_at |-> <<>>, completed_at |-> <<>>,
     errors |-> <<>>, last_scrape |-> <<>>]

\* a jsonify(...) answer with its status code; where the body carries
\* scraping_status, that is the variable at the moment of the answer
Response(code, success, message) ==
    [code |-> code, success |-> success, message |-> message]

NoResponse == Response(0, FALSE, "")

\* threading.Thread(target=run_scraper_async, args=(location, keywords,
\* max_pages)) after start(): no statement of the target has run yet.
\* keywords_iterable is FALSE for a JSON value of keywords that is no list
\* (a number), which ActuarialJobScraper keeps as it is.
NewThread(location, keywords, keywords_iterable, max_pages) ==
    [pc |-> "spawned", location |-> location, keywords |-> keywords,
     keywords_iterable |-> keywords_iterable, max_pages |-> max_pages,
     scraper |-> <<>>, seen_ids |-> {},
     naukri_jobs |-> <<>>, indeed_jobs |-> <<>>, linkedin_jobs |-> <<>>,
     all_jobs |-> <<>>, portal_ok |-> FALSE]

\* the largest max_pages trigger_scrape accepts
MaxPagesLimit == 10

\* the except branch of run_scraper_async as it would be if it left
\* is_running as it is
StatusAfterErrorStillRunning(status, e, now) ==
    [status EXCEPT !.status_message = [text |-> "Error: ", n |-> 0, error |-> e],
                   !.errors = Append(@, [timestamp |-> now, error |-> e]),
                   !.completed_at = <<now>>]

\* the except branch of run_scraper_async as it would be if it set the
\* number of jobs back
StatusAfterErrorClearsTotal(status, e, now) ==
    [status EXCEPT !.is_running = FALSE,
                   !.total_jobs = 0,
                   !.status_message = [text |-> "Error: ", n |-> 0, error |-> e],
                   !.errors = Append(@, [timestamp |-> now, error |-> e]),
                   !.completed_at = <<now>>]

\* the except branch of run_scraper_async, for the exception e
StatusAfterError(status, e, now) ==
    [status EXCEPT !.is_running = FALSE,
                   !.status_message = [text |-> "Error: ", n |-> 0, error |-> e],
                   !.errors = Append(@, [timestamp |-> now, error |-> e]),
                   !.completed_at = <<now>>]

\* run_scraper_async from the return of save_jobs_to_portal to its end
StatusAfterSuccess(status, t, now) ==
    [status EXCEPT !.is_running = FALSE,
                   !.progress = 100,
                   !.total_jobs = Len(t.all_jobs),
                   !.status_message = [text |-> "Completed successfully! Found jobs.",
                                       n |-> Len(t.all_jobs), error |-> ""],
                   !.completed_at = <<now>>,
                   !.last_scrape = <<[timestamp |-> now, total_jobs |-> Len(t.all_jobs),
                                      naukri |-> Len(t.naukri_jobs),
                                      indeed |-> Len(t.indeed_jobs),
                                      linkedin |-> Len(t.linkedin_jobs)]>>]

-----------------------------------------------------------------------------
(* Sample texts and listings the specifications draw their inputs from     *)

TAct == <<"A","c","t">>
TDev == <<"D","e","v">>
TCo == <<"C","o">>
TPune == <<"P","u","n","e">>
TRemote == <<"R","e","m","o","t","e">>
KwAct == <<"a","c","t">>
Blank == <<" ", " ">>
Href1 == <<"/", "1">>
Href2 == <<"/", "2">>
HrefAbs == <<"h","t","t","p",":","/","/","x","/","3">>

\* an HTML listing: its text is the text of its parts, one per line
HtmlCard(title, company, location, href, snippet) ==
    Card(title, company, location, href, NoneT, snippet,
         OrEmpty(title) \o <<"\n">> \o OrEmpty(company) \o <<"\n">>
         \o OrEmpty(location) \o <<"\n">> \o OrEmpty(snippet))

\* a complete listing that matches the keyword "act"
CardA == HtmlCard(TAct, TCo, TPune, Href1, NoneT)
\* a complete listing that does not match it, at a remote location
CardB == HtmlCard(TDev, TCo, TRemote, Href2, NoneT)
\* a listing whose company element is there but blank, without location
CardC == HtmlCard(TAct, Blank, NoneT, HrefAbs, NoneT)
\* a listing without a title element
CardD == HtmlCard(NoneT, TCo, TPune, Href1, NoneT)
\* CardA again, with a salary in its snippet: the same id, other fields
CardE == HtmlCard(TAct, TCo, TPune, Href1, <<"9", "-", "5">>)

-----------------------------------------------------------------------------
(* Specification SpecDedupe: dedupe applied to every list of at most       *)
(* MaxJobs postings drawn from DedupeJobs                                  *)

MaxJobs == 3

\* postings as scrape_soa and scrape_cas build them; CardA and CardE make
\* one id with two descriptions, and so do CardB with and without a snippet
DedupeJobs ==
    Range(SoaCards(<<CardA, CardE, CardB,
                     HtmlCard(TDev, TCo, TRemote, Href2, TAct)>>, <<>>, <<>>, FALSE))

Idle ==
    /\ raised = FALSE
    /\ log = <<>>
    /\ scraper = <<>>
    /\ seen_ids = {}
    /\ jobs = <<>>
    /\ today = 1
    /\ runs = <<>>
    /\ scraping_status = InitialStatus
    /\ latest_jobs_cache = <<>>
    /\ threads = <<>>
    /\ response = NoResponse
    /\ files = [json |-> <<>>, dir |-> {}]

InitDedupe ==
    /\ op = "init"
    /\ input \in SeqsUpTo(DedupeJobs, MaxJobs)
    /\ output = <<>>
    /\ Idle

\* scrape_actuarial_jobs.dedupe applied to the input
Dedupe ==
    /\ op = "init"
    /\ op' = "dedupe"
    /\ output' = dedupe(input)
    /\ UNCHANGED <<input, raised, log, scraper, seen_ids, jobs, today, runs, api>>

\* scrape_company_boards.dedupe applied to the input
BoardsDedupe ==
    /\ op = "init"
    /\ op' = "boards_dedupe"
    /\ output' = boards_dedupe(input)
    /\ UNCHANGED <<input, raised, log, scraper, seen_ids, jobs, today, runs, api>>

\* the end of run_scrape: the input is what scrape_soa, scrape_cas and
\* scrape_indeed returned, one list after the other, cut at a and b
RunScrapeEnd ==
    /\ op = "init"
    /\ op' = "run_scrape_end"
    /\ \E a \in 0..Len(input) : \E b \in a..Len(input) :
          output' = RunResult(Return(SubSeq(input, 1, a)),
                              Return(SubSeq(input, a + 1, b)),
                              Return(SubSeq(input, b + 1, Len(input)))).jobs
    /\ UNCHANGED <<input, raised, log, scraper, seen_ids, jobs, today, runs, api>>

NextDedupe == Dedupe \/ BoardsDedupe \/ RunScrapeEnd

SpecDedupe == InitDedupe /\ [][NextDedupe]_vars

Ids(js) == {js[i].id : i \in DOMAIN js}

\* the first posting of js that has the id
FirstWithId(js, id) ==
    js[CHOOSE i \in DOMAIN js : js[i].id = id /\ \A k \in 1..(i - 1) : js[k].id # id]

\* C1: the list dedupe returns holds no two postings with one id, holds a
\* posting for every id of the input, and the posting it holds for an id is
\* the first input posting with that id, every field unchanged
C1_DedupeFirstSeen ==
    op \in {"dedupe", "boards_dedupe"} =>
        /\ \A i, k \in DOMAIN output : output[i].id = output[k].id => i = k
        /\ Ids(output) = Ids(input)
        /\ \A i \in DOMAIN output : output[i] = FirstWithId(input, output[i].id)

\* a is b with some elements left out
RECURSIVE IsSubsequence(_, _)
IsSubsequence(a, b) ==
    IF a = <<>> THEN TRUE
    ELSE IF b = <<>> THEN FALSE
    ELSE IF Head(a) = Head(b) THEN IsSubsequence(Tail(a), Tail(b))
    ELSE IsSubsequence(a, Tail(b))

\* C23: the list dedupe returns is its input with some postings left out,
\* the others in their order; run_scrape gives dedupe the lists of SOA, CAS
\* and Indeed one after the other, so that what it returns holds, for
\* every id, the posting of the earliest source that has it
C23_DedupeSubsequence ==
    /\ op \in {"dedupe", "boards_dedupe"} => IsSubsequence(output, input)
    /\ op = "run_scrape_end" =>
           /\ Ids(output) = Ids(input)
           /\ Len(output) = Cardinality(Ids(input))
           /\ \A i \in DOMAIN output : output[i] = FirstWithId(input, output[i].id)

\* run_scrape has put together lists of which a later one repeats an id of
\* an earlier one with another description
C23_Witness ==
    /\ op = "run_scrape_end"
    /\ Len(output) < Len(input)
    /\ \E i, k \in DOMAIN input :
          /\ i < k /\ input[i].id = input[k].id /\ input[i] # input[k]
          /\ \E n \in DOMAIN output : output[n] = input[i]

\* dedupe has run on a list that repeats an id with different field values,
\* and has dropped a posting
C1_Witness ==
    /\ op = "dedupe"
    /\ Len(output) < Len(input)
    /\ \E i, k \in DOMAIN input :
          i < k /\ input[i].id = input[k].id /\ input[i] # input[k]

-----------------------------------------------------------------------------
(* Specification Spec: one run of each program.  RunScrape is a run of     *)
(* scrape_actuarial_jobs.py, BoardsMain a run of scrape_company_boards.py; *)
(* NewScraper, ScrapeAll and Tick are a process that makes an              *)
(* ActuarialJobScraper, as job_scraper.py and schedule_scraper.py do, and  *)
(* calls scrape_all on it, once or again, the same day or a later one.     *)
(* TriggerScrape, GetStatus and StopScrape are requests to the server of   *)
(* scraper_api.py, and the Thread actions the steps of the threads it      *)
(* started.                                                                *)

\* a JSON item: title, location, url, apply url and description
JsonItem(title, location, href, apply, text) ==
    Card(title, NoneT, location, href, apply, NoneT, text)

ItemA == JsonItem(TAct, TPune, HrefAbs, NoneT, TAct)
ItemB == JsonItem(TDev, TRemote, NoneT, HrefAbs, NoneT)

PageA == Page("ok", <<CardA>>)
PageBA == Page("ok", <<CardB, CardA>>)
PageNone == Page("ok", <<>>)
Page500 == Page("500", <<>>)
Page404 == Page("404", <<>>)
PageNetErr == Page("neterr", <<>>)
PageBad == Page("badbody", <<>>)

TokenAcme == <<"a","c","m","e">>
TokenZed == <<"z","e","d">>
EntryBeta == <<"h","t","t","p","s",":","/","/","b","o","a","r","d","s",".","g","r","e","e","n","h","o","u","s","e",".","i","o","/","b","e","t","a">>
EntryBad == <<"B","a","d"," ","E","n","t","r","y">>
EndpointWd == <<"h","t","t","p","s",":","/","/","w","d",".","e","x","a","m","p","l","e",".","c","o","m","/","j","o","b","s">>

\* the day counter stops here
MaxDay == 2
\* the number of scrape_all calls on one scraper that are followed
MaxRuns == 2

\* what the three sites answer to scrape_actuarial_jobs.py
ActWebs ==
    [soa : {<<PageA, PageNone>>, <<PageBA, PageA>>, <<Page500, PageA>>},
     cas : {PageA, PageBA, PageNetErr},
     indeed : {<<<<PageBA, PageNone>>>>, <<<<PageNetErr, PageBA>>>>, <<<<PageNone, PageNone>>>>}]

KeywordChoices == {<<>>, <<KwAct>>}
LocationChoices == {<<>>, <<TPune>>}

Init ==
    /\ op = "init"
    /\ input = <<>>
    /\ output = <<>>
    /\ Idle

\* python scrape_actuarial_jobs.py: main calls run_scrape and saves what it
\* returns
RunScrape ==
    /\ op = "init"
    /\ \E web \in ActWebs, keywords \in KeywordChoices, locations \in LocationChoices,
          remote_only \in BOOLEAN, max_pages \in 1..2 :
       \E r \in {run_scrape(web, keywords, locations, remote_only, max_pages)} :
              /\ input' = [web |-> web, keywords |-> keywords, locations |-> locations,
                           remote_only |-> remote_only, max_pages |-> max_pages]
              /\ output' = r.jobs
              /\ log' = r.log
    /\ op' = "run_scrape"
    /\ UNCHANGED <<raised, scraper, seen_ids, jobs, today, runs, api>>

\* the command lines of scrape_company_boards.py that are followed, with
\* what the boards answer
BoardsRuns ==
    [args : [greenhouse : {<<>>, <<TokenAcme>>, <<EntryBeta, EntryBad>>},
             lever : {<<>>, <<TokenZed>>},
             workday_endpoints : {<<>>, <<EndpointWd>>},
             keywords : KeywordChoices, locations : {<<>>}, remote_only : {FALSE}],
     g : {Page("ok", <<ItemA, ItemB>>), Page404},
     l : {Page("ok", <<ItemB>>), PageNetErr},
     w : {<<Page("ok", <<ItemA>>), PageNone>>, <<Page("ok", <<ItemB>>), Page500>>, <<PageBad, PageNone>>}]

\* python scrape_company_boards.py: main
BoardsMain ==
    /\ op = "init"
    /\ \E run \in BoardsRuns :
       \E web \in {[greenhouse |-> [i \in DOMAIN run.args.greenhouse |-> run.g],
                      lever |-> [i \in DOMAIN run.args.lever |-> run.l],
                      workday |-> [i \in DOMAIN run.args.workday_endpoints |-> run.w]]} :
       \E r \in {boards_main(web, run.args)} :
              /\ input' = [web |-> web, args |-> run.args]
              /\ output' = r.jobs
              /\ log' = r.log
    /\ op' = "boards_main"
    /\ UNCHANGED <<raised, scraper, seen_ids, jobs, today, runs, api>>

\* a card of Naukri, Indeed India or LinkedIn
IndiaCard(title, company, location, href, salary, snippet) ==
    [Card(title, company, location, href, NoneT, snippet, <<>>) EXCEPT !.salary = salary]

\* a complete card that matches the keyword "act", in Pune
IndiaCardA == IndiaCard(TAct, TCo, TPune, Href1, NoneT, NoneT)
\* a complete card that does not match it, at a remote location
IndiaCardB == IndiaCard(TDev, TCo, TRemote, Href2, NoneT, NoneT)
\* a card whose company element is there but blank, without location
IndiaCardC == IndiaCard(TAct, Blank, NoneT, NoneT, NoneT, NoneT)

\* what the three sites answer to one scrape_all; site[k][p] is the answer
\* to request p for keyword k
IndiaWebs ==
    {[naukri |-> <<<<Page("ok", <<IndiaCardA>>)>>>>, indeed |-> <<<<Page("ok", <<IndiaCardB>>)>>>>, linkedin |-> <<<<PageNone>>>>],
     [naukri |-> <<<<Page500, Page("ok", <<IndiaCardB>>)>>>>, indeed |-> <<<<PageNetErr>>>>, linkedin |-> <<<<Page("ok", <<IndiaCardA>>)>>>>],
     [naukri |-> <<<<PageNone>>>>, indeed |-> <<<<Page("ok", <<IndiaCardA, IndiaCardC>>)>>>>, linkedin |-> <<<<Page("ok", <<IndiaCardA, IndiaCardB>>)>>>>],
     [naukri |-> <<<<Page404>>>>, indeed |-> <<<<Page500>>>>, linkedin |-> <<<<PageNetErr>>>>]}

\* scraper = ActuarialJobScraper(location, keywords)
NewScraper ==
    /\ op = "init"
    /\ \E location \in {DefaultLocation, TPune}, keywords \in {<<>>, <<KwAct>>} :
          scraper' = <<NewSelf(location, keywords)>>
    /\ seen_ids' = {}
    /\ jobs' = <<>>
    /\ op' = "new"
    /\ UNCHANGED <<input, output, raised, log, today, runs, api>>

\* scraper.scrape_all() on the scraper the process holds
ScrapeAll ==
    /\ scraper # <<>>
    /\ Len(runs) < MaxRuns
    /\ \E web \in IndiaWebs :
       \E r \in {scrape_all(web, scraper[1], seen_ids, today)} :
              /\ input' = [web |-> web]
              /\ output' = r.jobs
              /\ jobs' = r.jobs
              /\ seen_ids' = r.seen_ids
              /\ log' = r.log
              /\ runs' = Append(runs, [web |-> web, day |-> today, jobs |-> r.jobs])
    /\ op' = "scrape_all"
    /\ UNCHANGED <<raised, scraper, today, api>>

\* midnight passes between two calls
Tick ==
    /\ scraper # <<>>
    /\ today < MaxDay
    /\ today' = today + 1
    /\ UNCHANGED <<op, input, output, raised, log, scraper, seen_ids, jobs, runs, api>>

\* the bodies of POST /api/scrape that are followed
ScrapeRequests ==
    [location : {TPune}, keywords : {<<KwAct>>}, keywords_iterable : BOOLEAN,
     max_pages : {1, 11}]

\* what the three sites answer to the requests of one thread
ApiWebs ==
    {[naukri |-> <<<<Page("ok", <<IndiaCardA>>)>>>>, indeed |-> <<<<Page("ok", <<IndiaCardA, IndiaCardC>>)>>>>, linkedin |-> <<<<Page("ok", <<IndiaCardA, IndiaCardB>>)>>>>],
     [naukri |-> <<<<Page500>>>>, indeed |-> <<<<PageNetErr>>>>, linkedin |-> <<<<PageNone>>>>]}

\* the number of threads the server is followed through
MaxThreads == 2

\* what the portal answers to the batches of one save_jobs_to_portal
PortalAnswers == {<<"200">>, <<"non200">>, <<"neterr">>, <<"badbody">>}

\* the variables the API does not touch
others == <<input, output, raised, log, scraper, seen_ids, jobs, today, runs>>

ApiRunning == op \in {"init", "scraper_api"}

\* POST /api/scrape
TriggerScrape ==
    /\ ApiRunning
    /\ \E data \in ScrapeRequests :
          IF scraping_status.is_running
          THEN /\ response' = Response(409, FALSE, "Scraping is already in progress")
               /\ UNCHANGED threads
          ELSE IF data.max_pages > MaxPagesLimit
          THEN /\ response' = Response(400, FALSE, "max_pages cannot exceed 10")
               /\ UNCHANGED threads
          ELSE /\ Len(threads) < MaxThreads
               /\ threads' = Append(threads, NewThread(data.location, data.keywords,
                                                       data.keywords_iterable, data.max_pages))
               /\ response' = Response(202, TRUE, "Scraping started")
    /\ op' = "scraper_api"
    /\ UNCHANGED <<others, scraping_status, latest_jobs_cache, files>>

\* GET /api/status
GetStatus ==
    /\ ApiRunning
    /\ response' = Response(200, TRUE, "")
    /\ op' = "scraper_api"
    /\ UNCHANGED <<others, scraping_status, latest_jobs_cache, threads, files>>

\* POST /api/stop as it would be if it ended the run itself
StopScrapeEndsRun ==
    /\ ApiRunning
    /\ IF ~scraping_status.is_running
       THEN /\ response' = Response(400, FALSE, "No scraping in progress")
            /\ UNCHANGED scraping_status
       ELSE /\ scraping_status' = [scraping_status EXCEPT !.status_message = Msg("Stopping..."),
                                                          !.is_running = FALSE]
            /\ response' = Response(200, TRUE, "Stop signal sent")
    /\ op' = "scraper_api"
    /\ UNCHANGED <<others, latest_jobs_cache, threads, files>>

\* POST /api/stop
StopScrape ==
    /\ ApiRunning
    /\ IF ~scraping_status.is_running
       THEN /\ response' = Response(400, FALSE, "No scraping in progress")
            /\ UNCHANGED scraping_status
       ELSE /\ scraping_status' = [scraping_status EXCEPT !.status_message = Msg("Stopping...")]
            /\ response' = Response(200, TRUE, "Stop signal sent")
    /\ op' = "scraper_api"
    /\ UNCHANGED <<others, latest_jobs_cache, threads, files>>

\* run_scraper_async runs in steps: each step is one blocking call with the
\* statements that follow it up to the next blocking call.
\* Its first statements, up to the call of scrape_naukri
ThreadBegin ==
    /\ \E t \in DOMAIN threads :
          /\ threads[t].pc = "spawned"
          /\ scraping_status' = [scraping_status EXCEPT
                                    !.is_running = TRUE, !.progress = 10,
                                    !.status_message = Msg("Scraping jobs from Naukri..."),
                                    !.started_at = <<today>>, !.errors = <<>>]
          /\ threads' = [threads EXCEPT
                            ![t].pc = "naukri",
                            ![t].scraper = <<NewSelf(threads[t].location, threads[t].keywords)>>]
    /\ op' = "scraper_api"
    /\ UNCHANGED <<others, latest_jobs_cache, response, files>>

\* scraper.scrape_naukri(max_pages): iterating over keywords that are no
\* list raises TypeError, which the except branch of the thread handles
ThreadNaukri ==
    /\ \E t \in DOMAIN threads :
          /\ threads[t].pc = "naukri"
          /\ IF ~threads[t].keywords_iterable
             THEN /\ scraping_status' = StatusAfterError(scraping_status, "TypeError", today)
                  /\ threads' = [threads EXCEPT ![t].pc = "done"]
             ELSE \E web \in ApiWebs :
                  \E r \in {scrape_naukri(web.naukri, threads[t].scraper[1], threads[t].seen_ids,
                                          today, threads[t].max_pages)} :
                      /\ threads' = [threads EXCEPT ![t].pc = "indeed",
                                                    ![t].naukri_jobs = r.jobs,
                                                    ![t].seen_ids = r.seen_ids]
                      /\ scraping_status' = [scraping_status EXCEPT
                                                !.progress = 40,
                                                !.status_message = Msg("Scraping jobs from Indeed...")]
    /\ op' = "scraper_api"
    /\ UNCHANGED <<others, latest_jobs_cache, response, files>>

\* scraper.scrape_indeed_india(max_pages)
ThreadIndeed ==
    /\ \E t \in DOMAIN threads :
          /\ threads[t].pc = "indeed"
          /\ \E web \in ApiWebs :
             \E r \in {scrape_indeed_india(web.indeed, threads[t].scraper[1], threads[t].seen_ids,
                                           today, threads[t].max_pages)} :
                 /\ threads' = [threads EXCEPT ![t].pc = "linkedin",
                                               ![t].indeed_jobs = r.jobs,
                                               ![t].seen_ids = r.seen_ids]
                 /\ scraping_status' = [scraping_status EXCEPT
                                           !.progress = 70,
                                           !.status_message = Msg("Scraping jobs from LinkedIn...")]
    /\ op' = "scraper_api"
    /\ UNCHANGED <<others, latest_jobs_cache, response, files>>

\* scraper.scrape_linkedin_india(max_pages=2), and the lists are combined
ThreadLinkedIn ==
    /\ \E t \in DOMAIN threads :
          /\ threads[t].pc = "linkedin"
          /\ \E web \in ApiWebs :
             \E r \in {scrape_linkedin_india(web.linkedin, threads[t].scraper[1], threads[t].seen_ids,
                                             today, LinkedInMaxPages)} :
                 /\ threads' = [threads EXCEPT
                                   ![t].pc = "save",
                                   ![t].linkedin_jobs = r.jobs,
                                   ![t].seen_ids = r.seen_ids,
                                   ![t].all_jobs = threads[t].naukri_jobs \o threads[t].indeed_jobs \o r.jobs]
                 /\ scraping_status' = [scraping_status EXCEPT
                                           !.progress = 90,
                                           !.status_message = Msg("Saving results...")]
    /\ op' = "scraper_api"
    /\ UNCHANGED <<others, latest_jobs_cache, response, files>>

\* scraper.save_to_json(...) and scraper.save_individual_files(...), on a
\* disk that takes the writes
ThreadSaveFiles ==
    /\ \E t \in DOMAIN threads :
          /\ threads[t].pc = "save"
          /\ files' = [json |-> threads[t].all_jobs,
                       dir |-> save_individual_files(threads[t].all_jobs, files.dir)]
          /\ threads' = [threads EXCEPT ![t].pc = "portal"]
    /\ op' = "scraper_api"
    /\ UNCHANGED <<others, scraping_status, latest_jobs_cache, response>>

\* save_jobs_to_portal(all_jobs, ...), and the thread runs to its end: the
\* message about the portal is replaced by the one of the completion
ThreadPostPortal ==
    /\ \E t \in DOMAIN threads :
          /\ threads[t].pc = "portal"
          /\ \E answers \in PortalAnswers :
                threads' = [threads EXCEPT
                               ![t].pc = "done",
                               ![t].portal_ok = save_jobs_to_portal(threads[t].all_jobs, answers).ok]
          /\ latest_jobs_cache' = threads[t].all_jobs
          /\ scraping_status' = StatusAfterSuccess(scraping_status, threads[t], today)
    /\ op' = "scraper_api"
    /\ UNCHANGED <<others, response, files>>

NextApi ==
    \/ TriggerScrape \/ GetStatus \/ StopScrape
    \/ ThreadBegin \/ ThreadNaukri \/ ThreadIndeed \/ ThreadLinkedIn
    \/ ThreadSaveFiles \/ ThreadPostPortal

Next == RunScrape \/ BoardsMain \/ NewScraper \/ ScrapeAll \/ Tick \/ NextApi

Spec == Init /\ [][Next]_vars

\* js is in ascending order of (source, company, title)
Sorted(js) ==
    \A i, k \in DOMAIN js : i < k => ~KeyLess(SortKey(js[k]), SortKey(js[i]))

\* C2: what run_scrape, main of scrape_company_boards.py and scrape_all
\* return is in ascending order of (source, company, title) and holds no id
\* twice
C2_EntryPointsSorted ==
    op \in {"run_scrape", "boards_main", "scrape_all"} =>
        /\ Sorted(output)
        /\ \A i, k \in DOMAIN output : output[i].id = output[k].id => i = k

\* C3: two scrape_all calls on one scraper that met the same answers of the
\* sites returned the same list
C3_SameInputSameOutput ==
    \A i, k \in DOMAIN runs : runs[i].web = runs[k].web => runs[i].jobs = runs[k].jobs

\* the answers of a site are all successful
AllOk(pages) == \A i \in DOMAIN pages : pages[i].status = "ok"

\* C4: when of the three sources of run_scrape only CAS fails, on its one
\* page, the summary holds exactly one error, the one of CAS, and the
\* postings of SOA and Indeed are returned
C4_OneErrorForFailedSource ==
    (/\ op = "run_scrape"
     /\ fetch_raises(input.web.cas)
     /\ AllOk(input.web.soa)
     /\ AllOk(input.web.indeed[1])) =>
        /\ {i \in DOMAIN log : log[i].error} = {2}
        /\ output = sort_jobs(dedupe(scrape_soa(input.web.soa, input.keywords, input.locations, input.remote_only, input.max_pages).jobs
                                     \o scrape_indeed(input.web.indeed, input.keywords, input.locations, input.remote_only, input.max_pages).jobs))

\* no two postings of js have the same id
UniqueIds(js) == \A i, k \in DOMAIN js : js[i].id = js[k].id => i = k

\* what the three adapters of ActuarialJobScraper return, each called alone
\* on a new scraper, put together in the order Naukri, Indeed, LinkedIn
Alone(naukri, indeed, linkedin, self, now, naukri_pages, indeed_pages) ==
    scrape_naukri(naukri, self, {}, now, naukri_pages).jobs
    \o scrape_indeed_india(indeed, self, {}, now, indeed_pages).jobs
    \o scrape_linkedin_india(linkedin, self, {}, now, LinkedInMaxPages).jobs

\* C11: the collection one pipeline run puts out holds no id twice; the
\* first scrape_all of a scraper, and a thread of the API when it has
\* combined its three lists, hold the postings of Naukri, Indeed and
\* LinkedIn in this order with, for each id, the first posting that has it
C11_UniqueIdsFirstSeen ==
    /\ op \in {"run_scrape", "boards_main", "scrape_all"} => UniqueIds(output)
    /\ (op = "scrape_all" /\ Len(runs) = 1) =>
           output = dedupe(Alone(input.web.naukri, input.web.indeed, input.web.linkedin,
                                 scraper[1], runs[1].day, NaukriMaxPages, IndeedIndiaMaxPages))
    /\ UniqueIds(latest_jobs_cache)
    /\ UniqueIds(files.json)
    /\ \A t \in DOMAIN threads :
           threads[t].pc = "save" =>
               threads[t].all_jobs \in
                   {dedupe(Alone(n.naukri, i.indeed, l.linkedin, threads[t].scraper[1], today,
                                 threads[t].max_pages, threads[t].max_pages)) :
                       n \in ApiWebs, i \in ApiWebs, l \in ApiWebs}

\* a first scrape_all met the same posting at Indeed and at LinkedIn and
\* put out the one of Indeed
C11_Witness ==
    /\ op = "scrape_all"
    /\ Len(runs) = 1
    /\ \E i \in DOMAIN output :
          /\ output[i].source = SrcIndeedIndia
          /\ \E k \in DOMAIN scrape_linkedin_india(input.web.linkedin, scraper[1], {}, today, LinkedInMaxPages).jobs :
                scrape_linkedin_india(input.web.linkedin, scraper[1], {}, today, LinkedInMaxPages).jobs[k].id = output[i].id

-----------------------------------------------------------------------------
(* Specification SpecAdapters: one call of one adapter.  The first request *)
(* meets any page of AdapterPages, a second request a page of SecondPages. *)
(* The adapters of ActuarialJobScraper are called on a new scraper.        *)
(* input is [pages, keywords, locations, remote_only, max_pages]: pages    *)
(* are the answers to the requests in their order; for a method of the     *)
(* scraper keywords is self.keywords and locations is <<self.location>>.   *)

\* the number of listings on the first page
MaxCards == 1

AdapterCards == {CardA, CardB, CardC, CardD}

AdapterPages ==
    {Page("ok", cards) : cards \in SeqsUpTo(AdapterCards, MaxCards)}
    \cup {Page404, Page500, PageNetErr, PageBad}

SecondPages == {PageA, PageNone, Page500}

Call(pages, keywords, locations, remote_only, max_pages) ==
    [pages |-> pages, keywords |-> keywords, locations |-> locations,
     remote_only |-> remote_only, max_pages |-> max_pages]

\* a call of one of the functions of the two scripts
Calls ==
    {Call(<<p1, p2>>, keywords, locations, remote_only, max_pages) :
        p1 \in AdapterPages, p2 \in SecondPages, keywords \in KeywordChoices,
        locations \in LocationChoices, remote_only \in BOOLEAN, max_pages \in 1..2}

\* a call of a method of a new ActuarialJobScraper(location, keywords)
ScraperCalls ==
    {Call(<<p1, p2>>, keywords, <<location>>, FALSE, max_pages) :
        p1 \in AdapterPages, p2 \in SecondPages, keywords \in {<<KwAct>>, <<TDev>>},
        location \in {DefaultLocation, TPune}, max_pages \in 1..2}

InitAdapters ==
    /\ op = "init"
    /\ input = <<>>
    /\ output = <<>>
    /\ Idle

\* the call has returned r
Returned(name, call, r) ==
    /\ op' = name
    /\ input' = call
    /\ output' = r.jobs
    /\ raised' = r.raised

ScrapeSoa ==
    /\ op = "init"
    /\ \E c \in Calls :
          Returned("scrape_soa", c, scrape_soa(c.pages, c.keywords, c.locations, c.remote_only, c.max_pages))
    /\ UNCHANGED <<log, scraper, seen_ids, jobs, today, runs, api>>

ScrapeCas ==
    /\ op = "init"
    /\ \E c \in Calls :
          /\ c.max_pages = 1
          /\ c.pages[2] = PageNone
          /\ Returned("scrape_cas", c, scrape_cas(c.pages[1], c.keywords, c.locations, c.remote_only, c.max_pages))
    /\ UNCHANGED <<log, scraper, seen_ids, jobs, today, runs, api>>

ScrapeIndeed ==
    /\ op = "init"
    /\ \E c \in Calls :
          Returned("scrape_indeed", c, scrape_indeed(<<c.pages>>, c.keywords, c.locations, c.remote_only, c.max_pages))
    /\ UNCHANGED <<log, scraper, seen_ids, jobs, today, runs, api>>

ScrapeGreenhouse ==
    /\ op = "init"
    /\ \E c \in Calls :
          /\ c.max_pages = 1
          /\ c.pages[2] = PageNone
          /\ Returned("scrape_greenhouse_board", c, scrape_greenhouse_board(c.pages[1], TokenAcme, c.keywords, c.locations, c.remote_only))
    /\ UNCHANGED <<log, scraper, seen_ids, jobs, today, runs, api>>

ScrapeLever ==
    /\ op = "init"
    /\ \E c \in Calls :
          /\ c.max_pages = 1
          /\ c.pages[2] = PageNone
          /\ Returned("scrape_lever_board", c, scrape_lever_board(c.pages[1], TokenZed, c.keywords, c.locations, c.remote_only))
    /\ UNCHANGED <<log, scraper, seen_ids, jobs, today, runs, api>>

ScrapeWorkday ==
    /\ op = "init"
    /\ \E c \in Calls :
          /\ c.max_pages = WorkdayDefaultPages
          /\ Returned("scrape_workday_endpoint", c, scrape_workday_endpoint(c.pages, EndpointWd, c.keywords, c.locations, c.remote_only))
    /\ UNCHANGED <<log, scraper, seen_ids, jobs, today, runs, api>>

\* a method of a new scraper has returned r
MethodReturned(name, call, r) ==
    /\ Returned(name, call, r)
    /\ scraper' = <<NewSelf(call.locations[1], call.keywords)>>
    /\ seen_ids' = r.seen_ids

ScrapeNaukri ==
    /\ op = "init"
    /\ \E c \in ScraperCalls :
          MethodReturned("scrape_naukri", c, scrape_naukri(<<c.pages>>, NewSelf(c.locations[1], c.keywords), {}, today, c.max_pages))
    /\ UNCHANGED <<log, jobs, today, runs, api>>

ScrapeIndeedIndia ==
    /\ op = "init"
    /\ \E c \in ScraperCalls :
          MethodReturned("scrape_indeed_india", c, scrape_indeed_india(<<c.pages>>, NewSelf(c.locations[1], c.keywords), {}, today, c.max_pages))
    /\ UNCHANGED <<log, jobs, today, runs, api>>

ScrapeLinkedIn ==
    /\ op = "init"
    /\ \E c \in ScraperCalls :
          /\ c.max_pages = 1
          /\ c.pages[2] = PageNone
          /\ MethodReturned("scrape_linkedin_india", c, scrape_linkedin_india(<<c.pages>>, NewSelf(c.locations[1], c.keywords), {}, today, c.max_pages))
    /\ UNCHANGED <<log, jobs, today, runs, api>>

NextAdapters ==
    \/ ScrapeSoa \/ ScrapeCas \/ ScrapeIndeed
    \/ ScrapeGreenhouse \/ ScrapeLever \/ ScrapeWorkday
    \/ ScrapeNaukri \/ ScrapeIndeedIndia \/ ScrapeLinkedIn

SpecAdapters == InitAdapters /\ [][NextAdapters]_vars

HtmlAdapters == {"scrape_soa", "scrape_cas", "scrape_indeed"}
BoardAdapters == {"scrape_greenhouse_board", "scrape_lever_board", "scrape_workday_endpoint"}
ScraperMethods == {"scrape_naukri", "scrape_indeed_india", "scrape_linkedin_india"}
Adapters == HtmlAdapters \cup BoardAdapters \cup ScraperMethods

\* the request does not give a body the adapter can read
Failed(page) == page.status # "ok"

\* a request scrape_workday_endpoint makes fails: the first, or the second
\* after a first page that holds items
WorkdayRequestFailed(pages) ==
    \/ Failed(pages[1])
    \/ pages[1].cards # <<>> /\ Failed(pages[2])

C6_FirstPageFailureFailsSource ==
    (op \in Adapters /\ input.pages[1].status \in {"404", "500", "neterr"}) =>
        /\ output = <<>>
        /\ raised

\* title + company + description of a posting, in lower case
Combined(j) == Lower(j.title \o <<" ">> \o j.company \o <<" ">> \o j.description)

\* C7: with a non-empty list of keywords, every posting an adapter returns
\* holds one of the keywords in its title, company or description, case
\* ignored
C7_KeywordFilter ==
    (op \in Adapters /\ input.keywords # <<>>) =>
        \A i \in DOMAIN output : AnyIn(input.keywords, Combined(output[i]))

\* C8: every posting an adapter returns has a location that holds one of the
\* locations asked for when there are any, and holds "remote" when only
\* remote postings are asked for
C8_LocationFilter ==
    op \in Adapters =>
        \A i \in DOMAIN output :
            /\ input.locations # <<>> => AnyIn(input.locations, Lower(output[i].location))
            /\ input.remote_only => Contains(Lower(output[i].location), RemoteWord)

\* C9: every posting an adapter returns has a non-empty title and a
\* non-empty company
C9_TitleAndCompany ==
    op \in Adapters =>
        \A i \in DOMAIN output : output[i].title # <<>> /\ output[i].company # <<>>

\* the four job types, as the values of ActuarialJobScraper and as text
JobTypes == {"full-time", "part-time", "contract", "internship"}
JobTypeTexts ==
    {<<"f","u","l","l","-","t","i","m","e">>, <<"p","a","r","t","-","t","i","m","e">>,
     <<"c","o","n","t","r","a","c","t">>, <<"i","n","t","e","r","n","s","h","i","p">>}

\* the text holds none of the words a job type is inferred from
NoJobTypeSignal(text) ==
    /\ ~Contains(Lower(text), InternWord)
    /\ ~AnyWord(ContractWords, Lower(text))
    /\ ~AnyWord(PartTimeWords, Lower(text))

\* the posting has one of the four job types, and full-time when its title
\* and description give no signal: jobType of a dict of ActuarialJobScraper,
\* job_type of a Job of the two scripts
JobTypeSet(j) ==
    IF "jobType" \in DOMAIN j
    THEN /\ j.jobType \in JobTypes
         /\ NoJobTypeSignal(j.title \o <<" ">> \o j.description) => j.jobType = "full-time"
    ELSE /\ j.job_type \in JobTypeTexts
         /\ NoJobTypeSignal(j.title \o <<" ">> \o j.description) =>
                j.job_type = <<"f","u","l","l","-","t","i","m","e">>

\* C13: every posting an adapter returns has a job type of full-time,
\* part-time, contract, internship, and full-time when its text gives no
\* job-type signal
C13_JobTypeOfEveryPosting ==
    (op \in Adapters /\ ~raised) => \A i \in DOMAIN output : JobTypeSet(output[i])

\* the part of C13 that holds: the postings of the three methods of
\* ActuarialJobScraper
C13_JobTypeOfScraperMethods ==
    (op \in ScraperMethods /\ ~raised) => \A i \in DOMAIN output : JobTypeSet(output[i])

-----------------------------------------------------------------------------
(* Specification SpecSalary: the two salary parsers applied to texts of    *)
(* the form  currency number unit separator number unit                    *)

SalaryPrefixes == {<<>>, <<"$">>, <<"R","s"," ">>}
SalaryNumbers == {<<"5">>, <<"9">>, <<"1","2">>, <<"0",".","2","5">>}
SalaryUnits == {<<>>, <<" ","l","a","k","h">>, <<"k">>}
SalarySeparators == {<<"-">>, <<" ","t","o"," ">>}
SalarySuffixes == {<<>>, <<" ","L","P","A">>, <<" ","c","r","o","r","e">>, <<" ","p","e","r"," ","m","o","n","t","h">>}

\* "50000 - 100000 per month"
MonthlyRange == <<"5","0","0","0","0"," ","-"," ","1","0","0","0","0","0"," ","p","e","r"," ","m","o","n","t","h">>

SalaryTexts ==
    {p \o a \o u \o sep \o b \o x :
        p \in SalaryPrefixes, a \in SalaryNumbers, u \in SalaryUnits,
        sep \in SalarySeparators, b \in SalaryNumbers, x \in SalarySuffixes}
    \cup {<<"$","1","0","0",",","0","0","0"," ","-"," ","$","5","0",",","0","0","0">>, <<"A","c","t">>}
    \cup {MonthlyRange, <<"R","s"," ">> \o MonthlyRange}

InitSalary ==
    /\ op = "init"
    /\ input \in SalaryTexts
    /\ output = <<>>
    /\ Idle

\* scrape_actuarial_jobs.parse_salary applied to the text
ParseSalary ==
    /\ op = "init"
    /\ op' = "parse_salary"
    /\ output' = parse_salary(input)
    /\ UNCHANGED <<input, raised, log, scraper, seen_ids, jobs, today, runs, api>>

\* ActuarialJobScraper.extract_salary applied to the text
ExtractSalary ==
    /\ op = "init"
    /\ op' = "extract_salary"
    /\ output' = extract_salary(input)
    /\ UNCHANGED <<input, raised, log, scraper, seen_ids, jobs, today, runs, api>>

NextSalary == ParseSalary \/ ExtractSalary

SpecSalary == InitSalary /\ [][NextSalary]_vars

\* C10: a salary parse_salary or extract_salary returns has min <= max
C10_SalaryMinMax ==
    (op \in {"parse_salary", "extract_salary"} /\ output # <<>>) =>
        output[1].min <= output[1].max

\* C15: extract_salary of "50000 - 100000 per month" is a salary of min
\* 600000 and max 1200000
C15_MonthlyRangeAnnualized ==
    (op = "extract_salary" /\ input = MonthlyRange) =>
        output = INR(600000, 1200000)

\* the salary with both bounds multiplied by 12 when its max is below 50000
Annualized(salary) ==
    IF salary.max < 50000
    THEN [salary EXCEPT !.min = @ * 12, !.max = @ * 12]
    ELSE salary

\* the first branch of extract_salary, pattern1 matched at the run starting
\* at i: the two numbers converted to rupees
Rupees1(t, i) ==
    LET unit == Unit2(t, SkipWs(t, DecEnd(t, Pattern1At(t, i).b)))
        mult == IF unit = "L" THEN 100000 ELSE IF unit = "K" THEN 1000 ELSE 1
    IN  [min |-> Scaled(NumAt(t, Pattern1At(t, i).a), mult),
         max |-> Scaled(NumAt(t, Pattern1At(t, i).b), mult)]

\* the rupees extract_salary reads from the text, by the first of its three
\* patterns that matches, before any annualization
RupeesRead(text) ==
    LET t == RemoveCh(text, ",")
    IN  IF Pattern1Starts(t) # {}
        THEN INR(Rupees1(t, Min(Pattern1Starts(t))).min, Rupees1(t, Min(Pattern1Starts(t))).max)[1]
        ELSE IF Pattern2Starts(t) # {} THEN Salary2(t, Min(Pattern2Starts(t)))[1]
        ELSE Salary3(t, Min(Pattern3Starts(t)))[1]

\* C16: whichever pattern matched, a salary extract_salary returns is the
\* rupees read with both bounds multiplied by 12 when the max read is
\* below 50000
C16_AnnualizedBelowThreshold ==
    (op = "extract_salary" /\ output # <<>>) =>
        output[1] = Annualized(RupeesRead(input))

\* the part of C16 that holds: the rule is applied when the first pattern
\* matched
C16_AnnualizedByFirstPattern ==
    (op = "extract_salary" /\ output # <<>> /\ Pattern1Starts(RemoveCh(input, ",")) # {}) =>
        output[1] = Annualized(RupeesRead(input))

-----------------------------------------------------------------------------
(* Specification SpecIds: the id generators applied to two tuples of       *)
(* (title, company, location, url).  input is <<a, b>>, output the two ids *)

IdTitles == {TAct, <<"A","c","t","!">>, TDev}
IdCompanies == {TCo, <<"C","o",".">>}
IdLocations == {TPune, TRemote}
IdUrls == {Href1, Href2}
IdTuples == [title : IdTitles, company : IdCompanies, location : IdLocations, url : IdUrls]

InitIds ==
    /\ op = "init"
    /\ input \in IdTuples \X IdTuples
    /\ output = <<>>
    /\ Idle

\* gen_id of scrape_actuarial_jobs.py and of scrape_company_boards.py
GenId ==
    /\ op = "init"
    /\ op' = "gen_id"
    /\ output' = <<gen_id(input[1].title, input[1].company, input[1].location, input[1].url),
                   gen_id(input[2].title, input[2].company, input[2].location, input[2].url)>>
    /\ UNCHANGED <<input, raised, log, scraper, seen_ids, jobs, today, runs, api>>

\* ActuarialJobScraper.generate_job_id, which the adapters call for a
\* posting with its title, company and location
GenerateJobId ==
    /\ op = "init"
    /\ op' = "generate_job_id"
    /\ output' = <<generate_job_id(input[1].title, input[1].company, input[1].location),
                   generate_job_id(input[2].title, input[2].company, input[2].location)>>
    /\ UNCHANGED <<input, raised, log, scraper, seen_ids, jobs, today, runs, api>>

NextIds == GenId \/ GenerateJobId

SpecIds == InitIds /\ [][NextIds]_vars

\* the fields in which two tuples differ
Differing(a, b) == {f \in {"title", "company", "location", "url"} : a[f] # b[f]}

\* C12: the id generators give one tuple one id, and two tuples that
\* differ in exactly one of title, company, location and url different ids
C12_IdStability ==
    op \in {"gen_id", "generate_job_id"} =>
        /\ input[1] = input[2] => output[1] = output[2]
        /\ Cardinality(Differing(input[1], input[2])) = 1 => output[1] # output[2]

\* the part of C12 that holds: one tuple, one id; and gen_id tells two urls
\* apart
C12_SameTupleSameId ==
    op \in {"gen_id", "generate_job_id"} =>
        /\ input[1] = input[2] => output[1] = output[2]
        /\ (op = "gen_id" /\ Differing(input[1], input[2]) = {"url"}) => output[1] # output[2]

-----------------------------------------------------------------------------
(* Specification SpecExperience: the two experience-level inferences       *)
(* applied to a text made of a term for a senior position, a term for an   *)
(* executive position, both in either order, or neither                    *)

ExecutiveTerms == {<<"D","i","r","e","c","t","o","r">>, <<"M","a","n","a","g","e","r">>, <<"L","e","a","d">>, <<"P","r","i","n","c","i","p","a","l">>, <<"H","e","a","d">>, <<"V","P">>, <<"C","h","i","e","f">>}
SeniorTerms == {<<"S","e","n","i","o","r">>, <<"1","0","+"," ","y","e","a","r","s">>, <<"8","+"," ","y","e","a","r","s">>, <<"S","r",".">>}
OtherTerms == {<<"A","c","t","u","a","r","y">>, <<"J","u","n","i","o","r">>, <<"3","-","5"," ","y","e","a","r","s">>, <<"e","n","t","r","y">>, <<"0","-","2"," ","y","e","a","r","s">>, <<"m","i","d","-","l","e","v","e","l">>, <<"G","r","a","d","u","a","t","e">>}

ExperienceTexts ==
    {e \o <<" ">> \o x : e \in ExecutiveTerms, x \in SeniorTerms}
    \cup {x \o <<" ">> \o e : e \in ExecutiveTerms, x \in SeniorTerms}
    \cup ExecutiveTerms \cup SeniorTerms \cup OtherTerms

InitExperience ==
    /\ op = "init"
    /\ input \in ExperienceTexts
    /\ output = <<>>
    /\ Idle

\* infer_experience(text)
InferExperience ==
    /\ op = "init"
    /\ op' = "infer_experience"
    /\ output' = infer_experience(input)
    /\ UNCHANGED <<input, raised, log, scraper, seen_ids, jobs, today, runs, api>>

\* determine_experience_level(title, description) with the text as title
\* or as description
DetermineExperienceLevel ==
    /\ op = "init"
    /\ op' = "determine_experience_level"
    /\ \E as_title \in BOOLEAN :
          output' = Level(IF as_title THEN determine_experience_level(input, TAct)
                          ELSE determine_experience_level(TAct, input))
    /\ UNCHANGED <<input, raised, log, scraper, seen_ids, jobs, today, runs, api>>

NextExperience == InferExperience \/ DetermineExperienceLevel

SpecExperience == InitExperience /\ [][NextExperience]_vars

HasExecutiveTerm(text) == \E e \in ExecutiveTerms : Contains(Lower(text), Lower(e))
HasSeniorTerm(text) == \E x \in SeniorTerms : Contains(Lower(text), Lower(x))

\* C14: a text with a term for an executive position (director, manager,
\* lead, principal, head, VP, chief) and a term for a senior one is
\* classified executive by infer_experience and determine_experience_level
C14_ExecutiveFirst ==
    (/\ op \in {"infer_experience", "determine_experience_level"}
     /\ HasExecutiveTerm(input)
     /\ HasSeniorTerm(input)) => output = Level("executive")

\* the part of C14 that holds: infer_experience classifies a text with one
\* of its own four executive words as executive, whatever else it holds
C14_InferExperienceOwnWords ==
    (op = "infer_experience" /\ AnyIn(InferExecutiveWords, Lower(input))) =>
        output = Level("executive")

-----------------------------------------------------------------------------
(* Specification SpecText: the text normalizers applied to None, to every  *)
(* text of at most MaxTextLen characters of TextAlphabet, and to the texts *)
(* of SignalTexts; and the inferences of ActuarialJobScraper applied to a  *)
(* text as it is and as clean_text returns it                              *)

MaxTextLen == 4
TextAlphabet == {"a", " ", "\n", "+"}

SignalTexts ==
    {<<"8","+"," ","y","e","a","r","s">>,
     <<"1","0","+"," ","y","e","a","r","s">>,
     <<"S","r","."," ","A","c","t","u","a","r","y">>,
     <<"3","-","5"," ","y","e","a","r","s">>,
     <<"c","+","+"," ","a","n","d"," ","s","q","l">>,
     <<"A","c","t","u","a","r","y"," ","(","R","&","D",")">>}

InitText ==
    /\ op = "init"
    /\ input \in SeqsUpTo(TextAlphabet, MaxTextLen) \cup {NoneT} \cup SignalTexts
    /\ output = <<>>
    /\ Idle

\* normalize_whitespace(text), and normalize_whitespace of what it returned
NormalizeWhitespace ==
    /\ op = "init"
    /\ op' = "normalize_whitespace"
    /\ output' = <<normalize_whitespace(input), normalize_whitespace(normalize_whitespace(input))>>
    /\ UNCHANGED <<input, raised, log, scraper, seen_ids, jobs, today, runs, api>>

\* normalize(text), and normalize of what it returned
Normalize ==
    /\ op = "init"
    /\ op' = "normalize"
    /\ output' = <<normalize(input), normalize(normalize(input))>>
    /\ UNCHANGED <<input, raised, log, scraper, seen_ids, jobs, today, runs, api>>

\* clean_text(text), and clean_text of what it returned
CleanText ==
    /\ op = "init"
    /\ op' = "clean_text"
    /\ output' = <<clean_text(input), clean_text(clean_text(input))>>
    /\ UNCHANGED <<input, raised, log, scraper, seen_ids, jobs, today, runs, api>>

\* determine_experience_level with the text as description, cleaned as the
\* adapters clean it, and as it is
LevelOfCleaned ==
    /\ op = "init"
    /\ input # NoneT
    /\ op' = "determine_experience_level"
    /\ output' = <<Level(determine_experience_level(TAct, clean_text(input))),
                   Level(determine_experience_level(TAct, input))>>
    /\ UNCHANGED <<input, raised, log, scraper, seen_ids, jobs, today, runs, api>>

\* extract_skills of the description, cleaned as the adapters clean it, and
\* as it is
SkillsOfCleaned ==
    /\ op = "init"
    /\ input # NoneT
    /\ op' = "extract_skills"
    /\ output' = <<extract_skills(clean_text(input)), extract_skills(input)>>
    /\ UNCHANGED <<input, raised, log, scraper, seen_ids, jobs, today, runs, api>>

NextText == NormalizeWhitespace \/ Normalize \/ CleanText \/ LevelOfCleaned \/ SkillsOfCleaned

SpecText == InitText /\ [][NextText]_vars

Normalizers == {"normalize_whitespace", "normalize", "clean_text"}

\* t has no whitespace at either end and no two whitespace characters in
\* a row
Normalized(t) ==
    /\ t # <<>> => ~IsSpace(t[1]) /\ ~IsSpace(t[Len(t)])
    /\ \A i \in 1..(Len(t) - 1) : ~(IsSpace(t[i]) /\ IsSpace(t[i + 1]))

\* C17: what a normalizer returns has no whitespace at its ends and no run
\* of whitespace, is empty for None and for the empty text, and is returned
\* unchanged when the normalizer is applied to it again
C17_NormalizersNormalize ==
    op \in Normalizers =>
        /\ Normalized(output[1])
        /\ input \in {NoneT, <<>>} => output[1] = <<>>
        /\ output[2] = output[1]

\* the part of C17 that holds: normalize_whitespace and normalize
C17_WhitespaceNormalizers ==
    op \in {"normalize_whitespace", "normalize"} =>
        /\ Normalized(output[1])
        /\ input \in {NoneT, <<>>} => output[1] = <<>>
        /\ output[2] = output[1]

\* C18: a "+" of the text is still there after clean_text, and the
\* experience level and the skills inferred from the cleaned text are those
\* inferred from the text as it is
C18_CleanTextKeepsSignals ==
    /\ (op = "clean_text" /\ input # NoneT /\ Contains(input, <<"+">>)) =>
           Contains(output[1], <<"+">>)
    /\ op \in {"determine_experience_level", "extract_skills"} => output[1] = output[2]

-----------------------------------------------------------------------------
(* Properties of Spec: the entries of scrape_company_boards.main that hold *)
(* no token                                                                *)

\* main finds no token in one of the Greenhouse or Lever entries
InvalidEntry(args) ==
    \/ \E i \in DOMAIN args.greenhouse : extract_greenhouse_token(args.greenhouse[i]) \in {NoneT, <<>>}
    \/ \E i \in DOMAIN args.lever : extract_lever_token(args.lever[i]) \in {NoneT, <<>>}

\* C19: when an entry of the command line holds no token, the run fails and
\* no source was fetched
C19_ValidatedBeforeFetch ==
    (op = "boards_main" /\ InvalidEntry(input.args)) =>
        /\ raised
        /\ \A i \in DOMAIN log : log[i].skipped

\* the part of C19 that holds: the entry without a token is itself never
\* fetched; main prints that it skips it
C19_InvalidEntrySkipped ==
    op = "boards_main" =>
        \A i \in DOMAIN input.args.greenhouse :
            extract_greenhouse_token(input.args.greenhouse[i]) \in {NoneT, <<>>} =>
                log[i] = Skipped(input.args.greenhouse[i])

-----------------------------------------------------------------------------
(* Specification SpecFair: Spec with the threads of run_scraper_async      *)
(* scheduled.  Every blocking call of a thread returns: the fetches and    *)
(* the POST to the portal carry a timeout, the sleeps are bounded.         *)

ThreadSteps ==
    \/ ThreadBegin \/ ThreadNaukri \/ ThreadIndeed \/ ThreadLinkedIn
    \/ ThreadSaveFiles \/ ThreadPostPortal

\* every thread has returned from run_scraper_async.  A thread that has not
\* returned can take its next step: the guard of each step of ThreadSteps is
\* the position of the thread alone
AllReturned == \A t \in DOMAIN threads : threads[t].pc = "done"

\* a step of a thread, told by its position: the steps of ThreadSteps are
\* the only ones of Next that move a thread
ThreadMoves ==
    \E t \in DOMAIN threads : threads[t].pc # "done" /\ threads'[t].pc # threads[t].pc

\* a started thread begins to run, and weak fairness of ThreadSteps,
\* WF_vars(ThreadSteps), written out with AllReturned for
\* ~ENABLED <<ThreadSteps>>_vars and ThreadMoves for the step
SpecFair ==
    /\ Spec
    /\ WF_vars(ThreadBegin)
    /\ []<>AllReturned \/ []<><<ThreadMoves>>_vars

StopAccepted == response = Response(200, TRUE, "Stop signal sent")

\* every thread has returned, and the one that ended last without an error
\* left its jobs in the cache
AllCompleted ==
    /\ AllReturned
    /\ ~scraping_status.is_running
    /\ (\E t \in DOMAIN threads : threads[t].keywords_iterable) =>
           \E t \in DOMAIN threads :
               threads[t].keywords_iterable /\ latest_jobs_cache = threads[t].all_jobs

\* C20: POST /api/stop while is_running changes the status message and
\* nothing else of the state, and the threads still run to their end: the
\* cache is updated and is_running is false; POST /api/stop while not
\* is_running is answered 400 and changes nothing
C20_StopIsBestEffort ==
    /\ [][StopScrape =>
             /\ UNCHANGED <<latest_jobs_cache, threads, files, others>>
             /\ IF scraping_status.is_running
                THEN /\ scraping_status' = [scraping_status EXCEPT !.status_message = scraping_status'.status_message]
                     /\ response'.code = 200
                ELSE /\ UNCHANGED scraping_status
                     /\ response'.code = 400]_vars
    /\ [](\A t \in DOMAIN threads :
             (threads[t].pc = "done" /\ threads[t].keywords_iterable) =>
                 threads[t].all_jobs = threads[t].naukri_jobs \o threads[t].indeed_jobs \o threads[t].linkedin_jobs)
    /\ StopAccepted ~> AllCompleted

\* a stop was accepted, and the thread ended as it does without one
C20_Witness ==
    /\ StopAccepted
    /\ ~scraping_status.is_running
    /\ scraping_status.progress = 100
    /\ \E t \in DOMAIN threads :
          /\ threads[t].pc = "done"
          /\ threads[t].all_jobs # <<>>
          /\ latest_jobs_cache = threads[t].all_jobs

-----------------------------------------------------------------------------
(* Specification SpecPortal: save_jobs_to_portal applied to every list of  *)
(* at most MaxPosted postings, the portal answering its first requests in  *)
(* every way                                                               *)

MaxPosted == 101
\* the number of requests whose answer is chosen
MaxAnswers == 3

\* a posting of the list, told from the others by its place
Posted(i) == [id |-> i]

InitPortal ==
    /\ op = "init"
    /\ \E n \in 0..MaxPosted :
       \E answers \in [1..MaxAnswers -> {"200", "non200", "neterr", "badbody"}] :
           input = [jobs |-> [i \in 1..n |-> Posted(i)], answers |-> answers]
    /\ output = <<>>
    /\ Idle

\* save_jobs_to_portal(jobs, portal_url, api_key)
SaveJobsToPortal ==
    /\ op = "init"
    /\ op' = "save_jobs_to_portal"
    /\ output' = save_jobs_to_portal(input.jobs, input.answers)
    /\ UNCHANGED <<input, raised, log, scraper, seen_ids, jobs, today, runs, api>>

NextPortal == SaveJobsToPortal

SpecPortal == InitPortal /\ [][NextPortal]_vars

\* the batches one after the other
RECURSIVE Flatten(_)
Flatten(batches) == IF batches = <<>> THEN <<>> ELSE Head(batches) \o Flatten(Tail(batches))

\* no batch is empty, and every batch before the last of the list holds
\* batch_size postings
FullBatches(batches, complete) ==
    \A b \in DOMAIN batches :
        /\ batches[b] # <<>>
        /\ Len(batches[b]) <= batch_size
        /\ (b < Len(batches) \/ ~complete) => Len(batches[b]) = batch_size

\* C21 as stated: for every list, the batches sent hold every posting once,
\* in the order of the list, each but the last holding 50, none empty
C21_EveryPostingInOneBatch ==
    op = "save_jobs_to_portal" =>
        /\ Flatten(output.batches) = input.jobs
        /\ FullBatches(output.batches, TRUE)

\* C21: the batches sent are the list cut into consecutive batches of 50
\* up to the request that raised; when no request raised they hold every
\* posting once, and only there may the last batch hold fewer than 50
C21_BatchesUntilFailure ==
    op = "save_jobs_to_portal" =>
        /\ Len(Flatten(output.batches)) <= Len(input.jobs)
        /\ Flatten(output.batches) = SubSeq(input.jobs, 1, Len(Flatten(output.batches)))
        /\ output.ok => Flatten(output.batches) = input.jobs
        /\ FullBatches(output.batches, Len(Flatten(output.batches)) = Len(input.jobs))

\* 101 postings went out in three batches, the second answered non-200
C21_Witness ==
    /\ op = "save_jobs_to_portal"
    /\ Len(input.jobs) = MaxPosted
    /\ input.answers[2] = "non200"
    /\ output.ok
    /\ Len(output.batches) = 3

-----------------------------------------------------------------------------
(* Specification SpecFiles: save_individual_files applied, with an empty   *)
(* output directory, to every list of at most MaxSaved postings of         *)
(* FilePostings                                                            *)

MaxSaved == 3

\* a posting as scrape_naukri builds it, of the company "Co"
FilePosting(title, location) ==
    IndiaJob(generate_job_id(title, TCo, location), title, TCo, location, title,
             NaukriRoot, SrcNaukri, determine_job_type(title, title),
             determine_experience_level(title, title), 1, FALSE, <<>>)

FilePostings == {FilePosting(title, location) : title \in {TAct, TDev}, location \in {TPune, TRemote}}

InitFiles ==
    /\ op = "init"
    /\ input \in SeqsUpTo(FilePostings, MaxSaved)
    /\ output = <<>>
    /\ Idle

\* scraper.save_individual_files(output_dir) with self.jobs = input
SaveIndividualFiles ==
    /\ op = "init"
    /\ op' = "save_individual_files"
    /\ output' = save_individual_files(input, {})
    /\ UNCHANGED <<input, raised, log, scraper, seen_ids, jobs, today, runs, api>>

NextFiles == SaveIndividualFiles

SpecFiles == InitFiles /\ [][NextFiles]_vars

\* C22: after save_individual_files on postings with pairwise distinct ids
\* the directory holds one file for each posting
C22_OneFilePerPosting ==
    (op = "save_individual_files" /\ UniqueIds(input)) =>
        /\ Cardinality(output) = Len(input)
        /\ \A i \in DOMAIN input : \E f \in output : f.content = input[i]

\* the part of C22 that holds: the directory holds one file for each file
\* name, with the last posting of the list that has this name
C22_OneFilePerName ==
    op = "save_individual_files" =>
        /\ \A f, g \in output : f.path = g.path => f = g
        /\ \A i \in DOMAIN input : \E f \in output :
               /\ f.path = job_filename(input[i])
               /\ (\A k \in DOMAIN input : k > i => job_filename(input[k]) # f.path) =>
                      f.content = input[i]

-----------------------------------------------------------------------------
(* Properties of SpecAdapters: a failed page of an adapter that requests   *)
(* several pages                                                           *)

MultiPageAdapters ==
    {"scrape_soa", "scrape_indeed", "scrape_workday_endpoint", "scrape_naukri", "scrape_indeed_india"}

\* the postings the adapter called as in c returns when its requests meet
\* pages
OnPages(name, c, pages) ==
    CASE name = "scrape_soa" -> scrape_soa(pages, c.keywords, c.locations, c.remote_only, c.max_pages).jobs
      [] name = "scrape_indeed" -> scrape_indeed(<<pages>>, c.keywords, c.locations, c.remote_only, c.max_pages).jobs
      [] name = "scrape_workday_endpoint" -> scrape_workday_endpoint(pages, EndpointWd, c.keywords, c.locations, c.remote_only).jobs
      [] name = "scrape_naukri" -> scrape_naukri(<<pages>>, NewSelf(c.locations[1], c.keywords), {}, today, c.max_pages).jobs
      [] name = "scrape_indeed_india" -> scrape_indeed_india(<<pages>>, NewSelf(c.locations[1], c.keywords), {}, today, c.max_pages).jobs

\* C24: when of the two pages an adapter requests one fails, the adapter
\* does not raise; it returns the postings of the first page when the
\* second failed, and has requested the second page when the first failed
C24_FailedPageSkipped ==
    (op \in MultiPageAdapters /\ input.max_pages = 2) =>
        /\ (~Failed(input.pages[1]) /\ input.pages[1].cards # <<>> /\ Failed(input.pages[2])) =>
               ~raised /\ output = OnPages(op, input, <<input.pages[1], PageNone>>)
        /\ (Failed(input.pages[1]) /\ ~Failed(input.pages[2])) =>
               ~raised /\ Ids(output) = Ids(OnPages(op, input, <<input.pages[2], PageNone>>))

\* the part of C24 that holds: scrape_soa, scrape_indeed and
\* scrape_indeed_india
C24_HtmlFailedPageSkipped ==
    (op \in {"scrape_soa", "scrape_indeed", "scrape_indeed_india"} /\ input.max_pages = 2) =>
        /\ (~Failed(input.pages[1]) /\ input.pages[1].cards # <<>> /\ Failed(input.pages[2])) =>
               ~raised /\ output = OnPages(op, input, <<input.pages[1], PageNone>>)
        /\ (Failed(input.pages[1]) /\ ~Failed(input.pages[2])) =>
               ~raised /\ Ids(output) = Ids(OnPages(op, input, <<input.pages[2], PageNone>>))

-----------------------------------------------------------------------------
(* Properties of Spec: when the seen ids are written                       *)

\* C25: duplicates are set aside after the fetching only: when scrape_naukri,
\* the first adapter of the first scrape_all of a scraper, has returned, and
\* scrape_indeed_india and scrape_linkedin_india have yet to fetch,
\* self.seen_ids is still empty
C25_DedupeIsPostPass ==
    (op = "scrape_all" /\ Len(runs) = 1) =>
        scrape_naukri(input.web.naukri, scraper[1], {}, runs[1].day, NaukriMaxPages).seen_ids = {}

\* C26: an adapter returns for given answers of its site the same list
\* whether it runs first or after other adapters: the first scrape_all of a
\* scraper returns the three lists that scrape_naukri, scrape_indeed_india
\* and scrape_linkedin_india return each called alone on a new scraper
C26_AdaptersShareNoState ==
    (op = "scrape_all" /\ Len(runs) = 1) =>
        output = Alone(input.web.naukri, input.web.indeed, input.web.linkedin,
                       scraper[1], runs[1].day, NaukriMaxPages, IndeedIndiaMaxPages)

-----------------------------------------------------------------------------
(* Properties of Spec: the scrape threads of the API                       *)

\* C27: at most one scrape thread is active: of the threads POST /api/scrape
\* has started no two are short of their end at the same time
C27_OneScrapeActive ==
    \A t, u \in DOMAIN threads :
        (threads[t].pc # "done" /\ threads[u].pc # "done") => t = u

-----------------------------------------------------------------------------
(* Properties of SpecFair: every scrape ends                               *)

\* the thread is in run_scraper_async, past its first statement
Active(t) == t.pc \notin {"spawned", "done"}

\* C28: every started scrape thread returns, and with the step that ends it,
\* after the last call or in the except branch, is_running is false and
\* completed_at is set; is_running is true only while a thread is in
\* run_scraper_async
C28_ScrapeEnds ==
    /\ [][\A t \in DOMAIN threads :
             (threads[t].pc # "done" /\ threads'[t].pc = "done") =>
                 /\ ~scraping_status'.is_running
                 /\ scraping_status'.completed_at = <<today>>]_vars
    /\ [](scraping_status.is_running => \E t \in DOMAIN threads : Active(threads[t]))
    /\ \A n \in 1..MaxThreads :
           (Len(threads) >= n) ~> (Len(threads) >= n /\ threads[n].pc = "done")

\* one thread has ended in the except branch and one after its last call
C28_Witness ==
    /\ AllReturned
    /\ \E t, u \in DOMAIN threads :
          /\ ~threads[t].keywords_iterable
          /\ threads[u].keywords_iterable
    /\ ~scraping_status.is_running
    /\ scraping_status.completed_at # <<>>
    /\ scraping_status.errors # <<>>

-----------------------------------------------------------------------------
(* Properties of Spec: what a run that ends with an exception leaves       *)

\* thread t returns with this step from the except branch
EndsInExcept(t) ==
    /\ t \in DOMAIN threads
    /\ threads[t].pc \notin {"portal", "done"}
    /\ threads'[t].pc = "done"

\* thread t returns with this step after its last statement
EndsInSuccess(t) ==
    /\ t \in DOMAIN threads
    /\ threads[t].pc = "portal"
    /\ threads'[t].pc = "done"

\* C29: the step that ends a run in the except branch changes is_running,
\* status_message, errors and completed_at and nothing else; no step of a
\* run other than its last one on the success path changes
\* latest_jobs_cache, total_jobs or last_scrape, and the cache becomes the
\* three lists of a thread that has called all three adapters
C29_ExceptionPathFrame ==
    /\ [][\A t \in 1..MaxThreads :
             EndsInExcept(t) =>
                 /\ UNCHANGED <<latest_jobs_cache, files, others>>
                 /\ scraping_status' = [scraping_status EXCEPT
                                           !.is_running = FALSE,
                                           !.status_message = scraping_status'.status_message,
                                           !.errors = scraping_status'.errors,
                                           !.completed_at = scraping_status'.completed_at]]_vars
    /\ [][\/ /\ latest_jobs_cache' = latest_jobs_cache
             /\ scraping_status'.total_jobs = scraping_status.total_jobs
             /\ scraping_status'.last_scrape = scraping_status.last_scrape
          \/ \E t \in 1..MaxThreads :
                /\ EndsInSuccess(t)
                /\ latest_jobs_cache' = threads[t].naukri_jobs \o threads[t].indeed_jobs
                                            \o threads[t].linkedin_jobs]_vars

\* a run has ended in the except branch after another run had filled the
\* cache, and the cache, total_jobs and last_scrape are those of that run
C29_Witness ==
    /\ AllReturned
    /\ scraping_status.status_message.error = "TypeError"
    /\ latest_jobs_cache # <<>>
    /\ scraping_status.total_jobs = Len(latest_jobs_cache)
    /\ scraping_status.last_scrape # <<>>

-----------------------------------------------------------------------------
(* Properties of Spec and SpecPortal: a failed posting to the portal       *)

\* C30: when the only run of the server has finished and its
\* save_jobs_to_portal returned False, the status says that posting to the
\* portal failed
C30_PortalFailureReported ==
    (/\ Len(threads) = 1
     /\ threads[1].pc = "done"
     /\ threads[1].keywords_iterable
     /\ ~threads[1].portal_ok) =>
        /\ ~scraping_status.is_running
        /\ scraping_status.progress = 100
        /\ scraping_status.status_message = Msg("Scraping complete but failed to post to portal")

\* the second half of C30, in SpecPortal: when the portal answers a batch
\* with a status other than 200, save_jobs_to_portal does not return True
C30_RejectedBatchNotSuccess ==
    op = "save_jobs_to_portal" =>
        ((\E k \in 1..Len(output.batches) : PortalAnswer(input.answers, k) = "non200")
            => ~output.ok)

====
